---- MODULE Spec2Model ----
(***************************************************************************)
(* A model of the GDB remote-serial-protocol stub of xenia                 *)
(* (src/src/xenia/debug/gdb/gdbstub.cc): the packet codec, the breakpoint  *)
(* registry, the session cache and the session loop with the Processor's   *)
(* callbacks.                                                              *)
(*                                                                         *)
(* Bytes are the integers 0..255; a std::string is a sequence of bytes.    *)
(***************************************************************************)
EXTENDS Integers, Sequences, FiniteSets, TLC

VARIABLES
    cache,           \* GDBStub::cache_ (the session cache, the breakpoint registry in it)
    processor,       \* the Processor collaborator as the stub observes it
    receive_buffer,  \* Listen's receive_buffer
    sent,            \* what the stub has written to the client socket, in order
    session,         \* the session thread: its position in Listen, the packets it has extracted,
                     \* and GDBStub::stop_thread_, which it polls
    callback,        \* the Processor thread: the callback it is running and its position
    mtx_,            \* GDBStub::mtx_: the thread holding it, or "free"
    effects,         \* the Processor calls and registry edits of the last handler, in order
    hist,            \* what a specification records of the past: requests, hits, receives
    codec            \* the codec's last run: the body given, the packet built, what was parsed

vars == <<cache, processor, receive_buffer, sent, session, callback, mtx_, effects, hist, codec>>

(***************************************************************************)
(* Bytes of the protocol.                                                  *)
(***************************************************************************)
Ack == 43           \* '+'
Nack == 45          \* '-'
PacketStart == 36   \* '$'
PacketEnd == 35     \* '#'
Interrupt == 3      \* '\03'
EscapeChar == 125   \* '}'
NulChar == 0        \* '\0'

kGdbReplyOK == <<79, 75>>          \* "OK"
kGdbReplyError == <<69, 48, 49>>   \* "E01"
ReplyS05 == <<83, 48, 53>>         \* "S05"
ReplyEmpty == <<>>                 \* ""

\* c ^ 0x20 on a byte: bit 5 toggled.
Xor20(c) == IF (c \div 32) % 2 = 1 THEN c - 32 ELSE c + 32

\* One lowercase hex digit, as std::hex prints it.
HexDigit(n) == IF n > 9 THEN 97 + n - 10 ELSE 48 + n

from_hexchar(c) ==
    IF c >= 48 /\ c <= 57 THEN c - 48
    ELSE IF c >= 97 /\ c <= 102 THEN c - 97 + 10
    ELSE IF c >= 65 /\ c <= 70 THEN c - 65 + 10
    ELSE 0

RECURSIVE SumBytes(_)
SumBytes(s) ==
    IF s = <<>> THEN 0
    ELSE IF Len(s) = 1 THEN s[1] % 256
    ELSE LET half == Len(s) \div 2
         IN  (SumBytes(SubSeq(s, 1, half)) + SumBytes(SubSeq(s, half + 1, Len(s)))) % 256

(***************************************************************************)
(* SendPacket: '$' data '#' and the checksum of data as two hex digits.    *)
(* The data is written as it is: nothing is escaped.                       *)
(***************************************************************************)
\* SendPacket as it would be without setw(2) and setfill('0').
SendPacket_NoPad(data) ==
    LET checksum == SumBytes(data)
    IN  <<PacketStart>> \o data \o <<PacketEnd>>
            \o (IF checksum < 16 THEN <<HexDigit(checksum)>>
                 ELSE <<HexDigit(checksum \div 16), HexDigit(checksum % 16)>>)

SendPacket(data) ==
    LET checksum == SumBytes(data)
    IN  <<PacketStart>> \o data \o <<PacketEnd>>
            \o <<HexDigit(checksum \div 16), HexDigit(checksum % 16)>>

(***************************************************************************)
(* ParsePacket.  buffer_index counts the bytes read; ReadCharFromBuffer    *)
(* yields '\0' past the end.                                               *)
(***************************************************************************)
ReadCharFromBuffer(packet, buffer_index) ==
    IF buffer_index >= Len(packet)
    THEN [c |-> NulChar, i |-> buffer_index]
    ELSE [c |-> packet[buffer_index + 1], i |-> buffer_index + 1]

ReadHexByteFromBuffer(packet, buffer_index) ==
    IF buffer_index + 2 > Len(packet)
    THEN 0
    ELSE (from_hexchar(packet[buffer_index + 1]) * 16
            + from_hexchar(packet[buffer_index + 2])) % 256

\* The loop body as it would be if the delimiter that ends cmd were dropped.
ParseBodyChar_DropDelimiter(packet, st, c0) ==
    LET sum1 == (st.checksum + c0) % 256
        esc  == c0 = EscapeChar
        rd   == ReadCharFromBuffer(packet, st.i)
        c    == IF esc THEN Xor20(rd.c) ELSE c0
        i2   == IF esc THEN rd.i ELSE st.i
        sum2 == IF esc THEN (sum1 + c) % 256 ELSE sum1
        split == st.cmd_part /\ (c = 58 \/ c = 46 \/ c = 59)
    IN  IF split
        THEN [st EXCEPT !.i = i2, !.checksum = sum2, !.cmd_part = FALSE]
        ELSE IF st.cmd_part
        THEN [st EXCEPT !.i = i2, !.checksum = sum2,
                        !.cmd = Append(st.cmd, c),
                        !.cmd_part = ~(Len(st.cmd) + 1 = 1 /\ c # 113 /\ c # 118)]
        ELSE [st EXCEPT !.i = i2, !.checksum = sum2,
                        !.data = Append(st.data, c)]

\* One pass of the body loop for the byte c0 already known to be part of the
\* body: the escape, the cmd/data split, the append.  st holds cmd, data,
\* cmd_part, checksum and the index after c0.
ParseBodyChar(packet, st, c0) ==
    LET sum1 == (st.checksum + c0) % 256
        esc  == c0 = EscapeChar
        rd   == ReadCharFromBuffer(packet, st.i)
        c    == IF esc THEN Xor20(rd.c) ELSE c0
        i2   == IF esc THEN rd.i ELSE st.i
        sum2 == IF esc THEN (sum1 + c) % 256 ELSE sum1
        part == st.cmd_part /\ ~(c = 58 \/ c = 46 \/ c = 59)   \* ':' '.' ';'
    IN  IF part
        THEN [st EXCEPT !.i = i2, !.checksum = sum2,
                        !.cmd = Append(st.cmd, c),
                        !.cmd_part = ~(Len(st.cmd) + 1 = 1 /\ c # 113 /\ c # 118)]
        ELSE [st EXCEPT !.i = i2, !.checksum = sum2,
                        !.cmd_part = FALSE,
                        !.data = Append(st.data, c)]

RECURSIVE ParseBody(_, _)
ParseBody(packet, st) ==
    LET rd == ReadCharFromBuffer(packet, st.i)
    IN  IF rd.c = NulChar \/ rd.c = PacketEnd
        THEN [st EXCEPT !.i = rd.i]
        ELSE ParseBody(packet, ParseBodyChar(packet, [st EXCEPT !.i = rd.i], rd.c))

\* The GDBCommand a default-constructed out_cmd holds.
EmptyCommand == [cmd |-> <<>>, data |-> <<>>, checksum |-> 0]

ParsePacket(packet) ==
    LET r0 == ReadCharFromBuffer(packet, 0)
        r1 == IF r0.c # PacketStart /\ r0.c = Ack
              THEN ReadCharFromBuffer(packet, r0.i) ELSE r0
        r2 == IF r0.c # PacketStart /\ r1.c = Ack
              THEN ReadCharFromBuffer(packet, r1.i) ELSE r1
    IN  IF r0.c # PacketStart /\ r2.c = Interrupt
        THEN [ok |-> TRUE, out_cmd |-> [cmd |-> <<Interrupt>>, data |-> <<>>, checksum |-> 0]]
        ELSE IF r0.c # PacketStart /\ r2.c # PacketStart
        THEN [ok |-> FALSE, out_cmd |-> EmptyCommand]
        ELSE LET st == ParseBody(packet,
                           [i |-> r2.i, cmd |-> <<>>, data |-> <<>>,
                            cmd_part |-> TRUE, checksum |-> 0])
                 sum == ReadHexByteFromBuffer(packet, st.i)
             IN  [ok |-> sum = st.checksum,
                  out_cmd |-> [cmd |-> st.cmd, data |-> st.data, checksum |-> sum]]


(***************************************************************************)
(* Text helpers: substr, find, the hex conversions of the dispatcher.      *)
(***************************************************************************)
\* s.substr(pos) / s.substr(pos, n), for pos <= s.size().
Substr(s, pos) == SubSeq(s, pos + 1, Len(s))
SubstrN(s, pos, n) ==
    SubSeq(s, pos + 1, IF pos + n > Len(s) THEN Len(s) ELSE pos + n)

\* s.find(c): the 0-based index of the first c, or npos (modelled as Len(s),
\* which substr(0, npos) treats alike: the whole string).
Find(s, c) ==
    IF \E i \in 1..Len(s) : s[i] = c
    THEN (CHOOSE i \in 1..Len(s) : s[i] = c /\ \A j \in 1..(i - 1) : s[j] # c) - 1
    ELSE Len(s)

IsHexChar(c) == (c >= 48 /\ c <= 57) \/ (c >= 97 /\ c <= 102) \/ (c >= 65 /\ c <= 70)

\* std::stoull(s, nullptr, 16) on a string that starts with a hex digit: the
\* value of its leading hex digits.
RECURSIVE StoullFrom(_, _)
StoullFrom(s, acc) ==
    IF s = <<>> \/ ~IsHexChar(s[1]) THEN acc
    ELSE StoullFrom(Tail(s), acc * 16 + from_hexchar(s[1]))

Stoull16(s) == StoullFrom(s, 0)

\* The hex text a client writes for a number (no leading zeros).
RECURSIVE HexText(_)
HexText(n) ==
    IF n < 16 THEN <<HexDigit(n)>> ELSE Append(HexText(n \div 16), HexDigit(n % 16))

(***************************************************************************)
(* The Processor collaborator and the Breakpoint class (xenia/cpu, not     *)
(* part of the stub's source): modelled from their interface.              *)
(***************************************************************************)
Running == "Running"
Paused == "Paused"
Stepping == "Stepping"

NoThread == -1     \* the -1 sentinel of the thread-id fields
NoAddress == -1    \* the -1 sentinel of notify_bp_guest_address

\* Guest addresses a client asks breakpoints for, and the host addresses the
\* JIT has compiled each to.  0x100 and 0x104 share host address 2; 0x10c has
\* no host code yet.
GuestAddresses == {256, 260, 264, 268}

HostCode(guest) ==
    CASE guest = 256 -> {1, 2}
      [] guest = 260 -> {2, 3}
      [] guest = 264 -> {4}
      [] OTHER -> {}

\* Breakpoint::guest_address(): the address as a uint32_t (the identity on
\* the addresses used here, all below 2^31).
guest_address(breakpoint) == breakpoint.address

\* Breakpoint::ForEachHostAddress collects these.
HostAddresses(breakpoint) == HostCode(guest_address(breakpoint))

ContainsHostAddress(breakpoint, host_address) ==
    host_address \in HostAddresses(breakpoint)

\* The thread snapshots QueryThreadDebugInfos returns.
ThreadInfos ==
    << [thread_id |-> 7, frames |-> <<0, 4096>>, lr |-> 8192],
       [thread_id |-> 9, frames |-> <<0>>, lr |-> 12288] >>

Modules == {"xam.xex", "game.xex"}

\* One entry of the effects log: a Processor call or a registry edit, the
\* handles of the breakpoints it touches, the thread it names.
Effect(op, bps, thread_id) == [op |-> op, bps |-> bps, thread_id |-> thread_id]

\* Processor::AddBreakpoint / RemoveBreakpoint keep the installed breakpoints.
AddBreakpoint(w, breakpoint) ==
    [w EXCEPT !.processor.breakpoints = @ \cup {breakpoint},
              !.effects = Append(@, Effect("AddBreakpoint", {breakpoint.handle}, NoThread))]

RemoveBreakpoint(w, breakpoint) ==
    [w EXCEPT !.processor.breakpoints = @ \ {breakpoint},
              !.effects = Append(@, Effect("RemoveBreakpoint", {breakpoint.handle}, NoThread))]

\* One call of a DebugListener callback the Processor has yet to make.
Event(ev, address, thread_id) == [ev |-> ev, address |-> address, thread_id |-> thread_id]

\* Processor::Pause: a running guest is paused and the listener is told.
ProcessorPause(w) ==
    LET w1 == [w EXCEPT !.effects = Append(@, Effect("Pause", {}, NoThread))]
    IN  IF w.processor.execution_state = Running
        THEN [w1 EXCEPT !.processor.execution_state = Paused,
                        !.processor.pending = Append(@, Event("OnExecutionPaused", NoAddress, NoThread))]
        ELSE w1

\* Processor::Continue: the guest runs again and the listener is told.
ProcessorContinue(w) ==
    LET w1 == [w EXCEPT !.effects = Append(@, Effect("Continue", {}, NoThread))]
    IN  IF w.processor.execution_state # Running
        THEN [w1 EXCEPT !.processor.execution_state = Running,
                        !.processor.pending = Append(@, Event("OnExecutionContinued", NoAddress, NoThread))]
        ELSE w1

\* Processor::StepGuestInstruction: the thread runs one instruction; the
\* completion is reported later by OnStepCompleted.
ProcessorStepGuestInstruction(w, thread_id) ==
    [w EXCEPT !.processor.execution_state = Stepping,
              !.processor.stepping = thread_id,
              !.effects = Append(@, Effect("StepGuestInstruction", {}, thread_id))]

(***************************************************************************)
(* The session cache.                                                      *)
(***************************************************************************)
\* The first handle no live breakpoint uses: what make_unique hands out.
NewHandle(w) ==
    LET used == {b.handle : b \in w.processor.breakpoints}
                  \cup {w.cache.breakpoints.all_breakpoints[i].handle :
                          i \in 1..Len(w.cache.breakpoints.all_breakpoints)}
    IN  CHOOSE n \in 1..(Cardinality(used) + 1) :
            n \notin used /\ \A m \in 1..(n - 1) : m \in used

\* UpdateCache as it would be without the early return of lines 524-527.
UpdateCache_AlwaysReload(w) ==
    LET stopped == w.processor.execution_state # Running
    IN  [w EXCEPT !.cache.is_stopped = stopped,
                  !.cache.notify_stopped = stopped,
                  !.cache.modules = w.processor.modules,
                  !.cache.thread_debug_infos = w.processor.threads,
                  !.cache.cur_thread_id = w.processor.threads[1].thread_id]

UpdateCache(w) ==
    LET stopped == w.processor.execution_state # Running
        w1 == [w EXCEPT !.cache.is_stopped = stopped,
                        !.cache.notify_stopped = stopped]
    IN  IF ~stopped
        THEN w1
        ELSE [w1 EXCEPT !.cache.modules = w.processor.modules,
                        !.cache.thread_debug_infos = w.processor.threads,
                        !.cache.cur_thread_id = w.processor.threads[1].thread_id]

(***************************************************************************)
(* The breakpoint registry: cache_.breakpoints.                            *)
(***************************************************************************)
EmptyMap == [k \in {} |-> 0]

MapHandles(w) ==
    {w.cache.breakpoints.code_breakpoints_by_guest_address[k].handle :
        k \in DOMAIN w.cache.breakpoints.code_breakpoints_by_guest_address}

AllHandles(w) ==
    {w.cache.breakpoints.all_breakpoints[i].handle :
        i \in 1..Len(w.cache.breakpoints.all_breakpoints)}

MapErase(map, key) == [k \in (DOMAIN map) \ {key} |-> map[k]]

SeqErase(s, i) == SubSeq(s, 1, i - 1) \o SubSeq(s, i + 1, Len(s))

\* CreateCodeBreakpoint as it would be without the scan of the host addresses.
CreateCodeBreakpoint_NoHostCheck(w, address) ==
    LET breakpoint == [handle |-> NewHandle(w), address |-> address]
        map == w.cache.breakpoints.code_breakpoints_by_guest_address
    IN  IF guest_address(breakpoint) \in DOMAIN map
        THEN [w |-> w, ok |-> FALSE]
        ELSE [w |-> [AddBreakpoint(w, breakpoint) EXCEPT
                       !.cache.breakpoints.code_breakpoints_by_guest_address =
                           (guest_address(breakpoint) :> breakpoint) @@ map,
                       !.cache.breakpoints.all_breakpoints = Append(@, breakpoint)],
              ok |-> TRUE]

\* CreateCodeBreakpoint as it would be without the test of the guest address
\* (std::map::emplace keeps the entry a key already has).
CreateCodeBreakpoint_NoGuestCheck(w, address) ==
    LET breakpoint == [handle |-> NewHandle(w), address |-> address]
        map == w.cache.breakpoints.code_breakpoints_by_guest_address
    IN  IF \E k \in DOMAIN map :
               \E host_address \in HostAddresses(breakpoint) :
                   ContainsHostAddress(map[k], host_address)
        THEN [w |-> w, ok |-> FALSE]
        ELSE [w |-> [AddBreakpoint(w, breakpoint) EXCEPT
                       !.cache.breakpoints.code_breakpoints_by_guest_address =
                           map @@ (guest_address(breakpoint) :> breakpoint),
                       !.cache.breakpoints.all_breakpoints = Append(@, breakpoint)],
              ok |-> TRUE]

CreateCodeBreakpoint(w, address) ==
    LET breakpoint == [handle |-> NewHandle(w), address |-> address]
        host_addresses == HostAddresses(breakpoint)
        map == w.cache.breakpoints.code_breakpoints_by_guest_address
        collides ==
            \E k \in DOMAIN map :
                \/ k = guest_address(breakpoint)
                \/ \E host_address \in host_addresses :
                       ContainsHostAddress(map[k], host_address)
    IN  IF collides
        THEN [w |-> w, ok |-> FALSE]
        ELSE LET w1 == [w EXCEPT
                          !.cache.breakpoints.code_breakpoints_by_guest_address =
                              (guest_address(breakpoint) :> breakpoint) @@ map,
                          !.effects = Append(@, Effect("map.emplace", {breakpoint.handle}, NoThread))]
                 w2 == AddBreakpoint(w1, breakpoint)
             IN  [w |-> [w2 EXCEPT
                          !.cache.breakpoints.all_breakpoints = Append(@, breakpoint),
                          !.effects = Append(@, Effect("all.emplace_back",
                                                        {breakpoint.handle}, NoThread))],
                  ok |-> TRUE]

\* DeleteCodeBreakpoint(Breakpoint*) as it would be with the registry edited
\* before the Processor is told.
DeleteCodeBreakpointPtr_RegistryFirst(w, breakpoint) ==
    LET all == w.cache.breakpoints.all_breakpoints
        map == w.cache.breakpoints.code_breakpoints_by_guest_address
    IN  IF \E i \in 1..Len(all) : all[i] = breakpoint
        THEN LET i  == CHOOSE i \in 1..Len(all) : all[i] = breakpoint
                 w1 == [w EXCEPT
                          !.cache.breakpoints.code_breakpoints_by_guest_address =
                              MapErase(map, guest_address(breakpoint)),
                          !.cache.breakpoints.all_breakpoints = SeqErase(all, i),
                          !.effects = @ \o <<Effect("map.erase", {breakpoint.handle}, NoThread),
                                             Effect("all.erase", {breakpoint.handle}, NoThread)>>]
             IN  RemoveBreakpoint(w1, breakpoint)
        ELSE w

\* DeleteCodeBreakpoint(Breakpoint*) as it would be without the erase from
\* all_breakpoints.
DeleteCodeBreakpointPtr_NoErase(w, breakpoint) ==
    LET all == w.cache.breakpoints.all_breakpoints
        map == w.cache.breakpoints.code_breakpoints_by_guest_address
    IN  IF \E i \in 1..Len(all) : all[i] = breakpoint
        THEN [RemoveBreakpoint(w, breakpoint) EXCEPT
                !.cache.breakpoints.code_breakpoints_by_guest_address =
                    MapErase(map, guest_address(breakpoint))]
        ELSE w

\* DeleteCodeBreakpoint(Breakpoint*)
DeleteCodeBreakpointPtr(w, breakpoint) ==
    LET all == w.cache.breakpoints.all_breakpoints
        map == w.cache.breakpoints.code_breakpoints_by_guest_address
    IN  IF \E i \in 1..Len(all) : all[i] = breakpoint
        THEN LET i  == CHOOSE i \in 1..Len(all) :
                           all[i] = breakpoint /\ \A j \in 1..(i - 1) : all[j] # breakpoint
                 w1 == RemoveBreakpoint(w, breakpoint)
                 w2 == IF guest_address(breakpoint) \in DOMAIN map
                       THEN [w1 EXCEPT
                               !.cache.breakpoints.code_breakpoints_by_guest_address =
                                   MapErase(map, guest_address(breakpoint)),
                               !.effects = Append(@, Effect("map.erase",
                                                             {breakpoint.handle}, NoThread))]
                       ELSE w1
             IN  [w2 EXCEPT !.cache.breakpoints.all_breakpoints = SeqErase(all, i),
                            !.effects = Append(@, Effect("all.erase",
                                                          {breakpoint.handle}, NoThread))]
        ELSE w

\* LookupBreakpointAtAddress: the breakpoint, or a null pointer as <<>>.
LookupBreakpointAtAddress(w, address) ==
    LET map == w.cache.breakpoints.code_breakpoints_by_guest_address
    IN  IF address \in DOMAIN map THEN <<map[address]>> ELSE <<>>

\* DeleteCodeBreakpoint(uint64_t)
DeleteCodeBreakpoint(w, address) ==
    LET breakpoint == LookupBreakpointAtAddress(w, address)
    IN  IF breakpoint = <<>> THEN w ELSE DeleteCodeBreakpointPtr(w, breakpoint[1])

ExecutionPause(w) == [w |-> ProcessorPause(w), reply |-> kGdbReplyOK]

ExecutionContinue(w) == [w |-> ProcessorContinue(w), reply |-> kGdbReplyOK]

RECURSIVE RemoveAllFromProcessor(_, _)
RemoveAllFromProcessor(w, bps) ==
    IF bps = <<>> THEN w
    ELSE RemoveAllFromProcessor(RemoveBreakpoint(w, bps[1]), Tail(bps))

\* DebuggerDetached as it would be if it left a paused guest paused.
DebuggerDetached_StayPaused(w) ==
    LET w1 == RemoveAllFromProcessor(w, w.cache.breakpoints.all_breakpoints)
    IN  [w |-> [w1 EXCEPT
                  !.cache.breakpoints.code_breakpoints_by_guest_address = EmptyMap,
                  !.cache.breakpoints.all_breakpoints = <<>>],
         reply |-> kGdbReplyOK]

\* DebuggerDetached, lines 182-198.
DebuggerDetached(w) ==
    LET w1 == RemoveAllFromProcessor(w, w.cache.breakpoints.all_breakpoints)
        w2 == [w1 EXCEPT
                 !.cache.breakpoints.code_breakpoints_by_guest_address = EmptyMap,
                 !.effects = Append(@, Effect("map.clear", MapHandles(w1), NoThread))]
        w3 == [w2 EXCEPT
                 !.cache.breakpoints.all_breakpoints = <<>>,
                 !.effects = Append(@, Effect("all.clear", AllHandles(w2), NoThread))]
    IN  IF w3.processor.execution_state = Paused
        THEN [w |-> ExecutionContinue(w3).w, reply |-> kGdbReplyOK]
        ELSE [w |-> w3, reply |-> kGdbReplyOK]

RECURSIVE DeleteAllBreakpoints(_)
DeleteAllBreakpoints(w) ==
    IF w.cache.breakpoints.all_breakpoints = <<>> THEN w
    ELSE DeleteAllBreakpoints(
             DeleteCodeBreakpointPtr(w, w.cache.breakpoints.all_breakpoints[1]))

OnDetached(w) == DeleteAllBreakpoints(UpdateCache(w))


(***************************************************************************)
(* Register reads.  A thread is passed as cur_thread_info() yields it: <<>>  *)
(* for null, <<t>> for a snapshot.  The sessions of this model read         *)
(* registers only with a current thread that is in the snapshot.            *)
(***************************************************************************)
\* fmt "{:08x}": eight lowercase hex digits of a 32-bit value.
RECURSIVE PaddedHex(_, _)
PaddedHex(value, width) ==
    IF width = 0 THEN <<>>
    ELSE Append(PaddedHex(value \div 16, width - 1), HexDigit(value % 16))

u32_to_padded_hex(value) == PaddedHex(value, 8)

\* cache_.thread_info(thread_id): the snapshot with that id, or null as <<>>.
thread_info(c, thread_id) ==
    LET hits == {i \in 1..Len(c.thread_debug_infos) :
                    c.thread_debug_infos[i].thread_id = thread_id}
    IN  IF hits = {} THEN <<>>
        ELSE <<c.thread_debug_infos[CHOOSE i \in hits : \A j \in hits : i <= j]>>

\* The guest PC of the first frame that has one, or 0.
RECURSIVE FirstGuestPc(_)
FirstGuestPc(frames) ==
    IF frames = <<>> THEN 0
    ELSE IF frames[1] # 0 THEN frames[1] ELSE FirstGuestPc(Tail(frames))

u64_to_padded_hex(value) == PaddedHex(value, 16)

\* What the guest context of a thread snapshot holds: r[n], f[n] (as its 64
\* bits), cr and ctr.
ContextR(thread, n) == thread.thread_id * 32 + n
ContextF(thread, n) == thread.thread_id * 64 + n
ContextCr(thread) == thread.lr + 4
ContextCtr(thread) == thread.lr + 8

kRegisterCount == 71    \* ReadRegisters reads the ids 0..70
kPcRegister == 64

Xs == <<120, 120, 120, 120, 120, 120, 120, 120>>   \* std::string(8, 'x')

\* ReadRegister for the ids other than 64, lines 231-251.  A null thread
\* where the code reads through it yields no text here.
RegisterText(thread, rid) ==
    IF rid \in {65, 69, 70} THEN Xs
    ELSE IF rid > 70 THEN <<>>
    ELSE IF thread = <<>> THEN <<>>
    ELSE IF rid = 66 THEN u32_to_padded_hex(ContextCr(thread[1]))
    ELSE IF rid = 67 THEN u32_to_padded_hex(thread[1].lr)
    ELSE IF rid = 68 THEN u32_to_padded_hex(ContextCtr(thread[1]))
    ELSE IF rid > 31 THEN u64_to_padded_hex(ContextF(thread[1], rid - 32))
    ELSE u32_to_padded_hex(ContextR(thread[1], rid))

\* The PC of a thread as register 64 reports it without a forced PC, lines
\* 222-229.
FramePc(thread) ==
    IF thread = <<>> THEN <<>> ELSE u32_to_padded_hex(FirstGuestPc(thread[1].frames))

\* ReadRegister(thread, rid) as it would be if it never cleared the forced PC.
ReadRegister_KeepForcedPc(c, thread, rid) ==
    IF rid = kPcRegister
    THEN IF c.notify_bp_guest_address # NoAddress
         THEN [cache |-> c, result |-> u32_to_padded_hex(c.notify_bp_guest_address)]
         ELSE [cache |-> c, result |-> FramePc(thread)]
    ELSE [cache |-> c, result |-> RegisterText(thread, rid)]

\* ReadRegister(thread, rid), lines 200-253: the text of one register, and
\* the cache with the forced PC consumed if register 64 returned it.
ReadRegister(c, thread, rid) ==
    IF rid = kPcRegister
    THEN IF c.notify_bp_guest_address # NoAddress
         THEN [cache |-> [c EXCEPT !.notify_bp_guest_address = NoAddress],
               result |-> u32_to_padded_hex(c.notify_bp_guest_address)]
         ELSE [cache |-> c, result |-> FramePc(thread)]
    ELSE [cache |-> c, result |-> RegisterText(thread, rid)]

cur_thread_info(c) == thread_info(c, c.cur_thread_id)

\* hex_to_u32: std::from_chars in base 16, the value of the leading hex
\* digits.  The p requests of this model name an id with at least one digit
\* that fits 32 bits.
hex_to_u32(val) == StoullFrom(val, 0)

\* ReadRegister(data) once rid holds a value, lines 540-544.
ReadRegisterId(w, rid) ==
    LET r == ReadRegister(w.cache, cur_thread_info(w.cache), rid)
    IN  [w |-> [w EXCEPT !.cache = r.cache],
         reply |-> IF r.result = <<>> THEN kGdbReplyError ELSE r.result]

\* The p command as it would be if an empty result were sent as it is.
ReadRegisterCommand_NoError(w, data) ==
    LET r == ReadRegister(w.cache, cur_thread_info(w.cache), hex_to_u32(data))
    IN  [w |-> [w EXCEPT !.cache = r.cache], reply |-> r.result]

\* ReadRegister(data), lines 538-545: the p command.
ReadRegisterCommand(w, data) == ReadRegisterId(w, hex_to_u32(data))

\* The texts ReadRegister yields for the ids first..last, in increasing
\* order, none of them 64: these reads leave the cache as it is.
RECURSIVE RegisterTexts(_, _, _)
RegisterTexts(thread, first, last) ==
    IF first > last THEN <<>>
    ELSE IF first = last THEN RegisterText(thread, first)
    ELSE LET middle == (first + last) \div 2
         IN  RegisterTexts(thread, first, middle) \o RegisterTexts(thread, middle + 1, last)

\* ReadRegisters as it would be if the loop skipped register 64.
ReadRegisters_SkipPc(w) ==
    LET thread == cur_thread_info(w.cache)
    IN  [w |-> w,
         reply |-> RegisterTexts(thread, 0, kPcRegister - 1)
                       \o RegisterTexts(thread, kPcRegister + 1, kRegisterCount - 1)]

\* ReadRegisters, lines 547-554: the g command, the texts of the ids 0..70
\* appended in increasing order.  Only the read of 64 can change the cache
\* (it consumes the forced PC), and no read changes the current thread.
ReadRegisters(w) ==
    LET thread == cur_thread_info(w.cache)
        pc     == ReadRegister(w.cache, thread, kPcRegister)
    IN  [w |-> [w EXCEPT !.cache = pc.cache],
         reply |-> RegisterTexts(thread, 0, kPcRegister - 1) \o pc.result
                       \o RegisterTexts(thread, kPcRegister + 1, kRegisterCount - 1)]

(***************************************************************************)
(* Thread selection.                                                       *)
(***************************************************************************)
\* std::stol(s, 0, 16) on a string that holds an optional sign and at least
\* one hex digit.
Stol16(s) ==
    IF s[1] = 45 THEN 0 - StoullFrom(Tail(s), 0)
    ELSE IF s[1] = 43 THEN StoullFrom(Tail(s), 0)
    ELSE StoullFrom(s, 0)

HasNumber(s) ==
    /\ s # <<>>
    /\ IF s[1] \in {43, 45} THEN Len(s) > 1 /\ IsHexChar(s[2]) ELSE IsHexChar(s[1])

\* The id of the first thread of the snapshot, or -1: lines 844-847.
FirstThreadId(c) ==
    IF c.thread_debug_infos # <<>> THEN c.thread_debug_infos[1].thread_id ELSE NoThread

\* The H command as it would be without the reset of lines 844-847.
SetCurrentThread_NoReset(w, data) ==
    LET threadId == Stol16(Tail(data))
    IN  [w |-> IF \E i \in 1..Len(w.cache.thread_debug_infos) :
                      w.cache.thread_debug_infos[i].thread_id = threadId
               THEN [w EXCEPT !.cache.cur_thread_id = threadId]
               ELSE w,
         reply |-> kGdbReplyOK]

\* The H command as it would be if it took the requested id without looking
\* for it in the snapshot.
SetCurrentThread_Unchecked(w, data) ==
    IF data = <<>> \/ ~HasNumber(Tail(data))
    THEN [w |-> [w EXCEPT !.cache.cur_thread_id = FirstThreadId(w.cache),
                          !.effects = Append(@, Effect("throw", {}, NoThread))],
          reply |-> ReplyEmpty]
    ELSE [w |-> [w EXCEPT !.cache.cur_thread_id = Stol16(Tail(data))],
          reply |-> kGdbReplyOK]

\* The H command, lines 841-859.  data is the operation letter and the
\* thread id in hex.  Without a number after the letter std::stol (or substr)
\* throws after the reset, nothing catches it and no reply is made.
SetCurrentThread(w, data) ==
    LET reset == [w EXCEPT !.cache.cur_thread_id = FirstThreadId(w.cache)]
    IN  IF data = <<>> \/ ~HasNumber(Tail(data))
        THEN [w |-> [reset EXCEPT !.effects = Append(@, Effect("throw", {}, NoThread))],
              reply |-> ReplyEmpty]
        ELSE LET threadId == Stol16(Tail(data))
             IN  [w |-> IF \E i \in 1..Len(w.cache.thread_debug_infos) :
                               w.cache.thread_debug_infos[i].thread_id = threadId
                        THEN [reset EXCEPT !.cache.cur_thread_id = threadId]
                        ELSE reset,
                  reply |-> kGdbReplyOK]

(***************************************************************************)
(* The command dispatcher.  The handlers of the commands the sessions of   *)
(* this model send: ? D ! C c s \03 p P H g vAttach Z z; any other cmd    *)
(* "".                                                                      *)
(***************************************************************************)
\* ExecutionStep as it would be if it stepped the current thread whether or
\* not a thread has been reported.
ExecutionStep_CurrentThread(w) ==
    [w |-> ProcessorStepGuestInstruction(w, w.cache.cur_thread_id),
     reply |-> kGdbReplyOK]

\* ExecutionStep, lines 572-582.
ExecutionStep(w) ==
    IF w.cache.last_bp_thread_id # NoThread
    THEN [w |-> ProcessorStepGuestInstruction(w, w.cache.last_bp_thread_id),
          reply |-> kGdbReplyOK]
    ELSE [w |-> w, reply |-> kGdbReplyOK]

\* The address of a Z or z request: data.substr(2) up to the next ','.
BreakpointAddress(data) ==
    LET hex_addr == Substr(data, 2)
    IN  Stoull16(SubstrN(hex_addr, 0, Find(hex_addr, 44)))

\* std::to_string of a thread id.
RECURSIVE to_string(_)
to_string(n) ==
    IF n < 0 THEN <<45>> \o to_string(0 - n)
    ELSE IF n < 10 THEN <<48 + n>>
    ELSE Append(to_string(n \div 10), 48 + (n % 10))

\* qC, lines 836-839: "QC" and the current thread's id in decimal.  The
\* handler dereferences cur_thread_info() unchecked; with no such thread the
\* read is through a null pointer, recorded as an effect.
CurrentThreadReply(w) ==
    LET thread == cur_thread_info(w.cache)
    IN  IF thread # <<>>
        THEN [w |-> w, reply |-> <<81, 67>> \o to_string(thread[1].thread_id)]
        ELSE [w |-> [w EXCEPT !.effects =
                         Append(@, Effect("null dereference", {}, w.cache.cur_thread_id))],
              reply |-> ReplyEmpty]

\* qfThreadInfo, lines 903-912: "m" and the ids of the cached threads in
\* decimal, separated by commas.
RECURSIVE ThreadIdList(_)
ThreadIdList(threads) ==
    IF threads = <<>> THEN <<>>
    ELSE IF Len(threads) = 1 THEN to_string(threads[1].thread_id)
    ELSE to_string(threads[1].thread_id) \o <<44>> \o ThreadIdList(Tail(threads))

ThreadInfoReply(w) == [w |-> w, reply |-> <<109>> \o ThreadIdList(w.cache.thread_debug_infos)]

\* The sub-command of qXfer, lines 884-888: the data without a leading ':',
\* up to the next ':'.
XferSubCommand(data) ==
    LET param == IF Len(data) > 0 /\ data[1] = 58 THEN Substr(data, 1) ELSE data
    IN  SubstrN(param, 0, Find(param, 58))

HandleGDBCommand(w, command) ==
    LET cmd == command.cmd
    IN  CASE cmd = <<63>> -> [w |-> w, reply |-> ReplyS05]                 \* "?"
          [] cmd = <<68>> -> DebuggerDetached(w)                           \* "D"
          [] cmd = <<33>> -> [w |-> w, reply |-> kGdbReplyOK]              \* "!"
          [] cmd = <<67>> -> ExecutionContinue(w)                          \* "C"
          [] cmd = <<99>> -> ExecutionContinue(w)                          \* "c"
          [] cmd = <<115>> -> ExecutionStep(w)                             \* "s"
          [] cmd = <<Interrupt>> -> ExecutionPause(w)                      \* "\03"
          [] cmd = <<112>> -> ReadRegisterCommand(w, command.data)         \* "p"
          [] cmd = <<80>> -> [w |-> w, reply |-> kGdbReplyOK]              \* "P"
          [] cmd = <<72>> -> SetCurrentThread(w, command.data)             \* "H"
          [] cmd = <<113, 67>> -> CurrentThreadReply(w)                    \* "qC"
          [] cmd = <<113, 102, 84, 104, 114, 101, 97, 100, 73, 110, 102, 111>> ->
                 ThreadInfoReply(w)                                        \* "qfThreadInfo"
          [] cmd = <<103>> -> ReadRegisters(w)                             \* "g"
          [] cmd = <<118, 65, 116, 116, 97, 99, 104>> ->                   \* "vAttach"
                 [w |-> w, reply |-> ReplyS05]
          [] cmd = <<90>> ->                                               \* "Z"
                 LET r == CreateCodeBreakpoint(w, BreakpointAddress(command.data))
                 IN  [w |-> r.w, reply |-> IF r.ok THEN kGdbReplyOK ELSE kGdbReplyError]
          [] cmd = <<122>> ->                                              \* "z"
                 [w |-> DeleteCodeBreakpoint(w, BreakpointAddress(command.data)),
                  reply |-> kGdbReplyOK]
          [] OTHER -> [w |-> w, reply |-> ReplyEmpty]

(***************************************************************************)
(* Stop replies and the session loop's steps.                              *)
(***************************************************************************)
\* "T05" "40:" pc ";" "43:" lr ";thread:" tid ";"  or "S05"
GetThreadStateReply(c, thread_id, signal) ==
    LET thread == thread_info(c, thread_id)
    IN  IF thread_id # NoThread /\ thread # <<>>
        THEN LET pc_value == IF c.notify_bp_guest_address # NoAddress
                             THEN c.notify_bp_guest_address
                             ELSE FirstGuestPc(thread[1].frames)
             IN  <<84>> \o PaddedHex(signal, 2) \o PaddedHex(64, 2) \o <<58>>
                     \o u32_to_padded_hex(pc_value) \o <<59>>
                     \o PaddedHex(67, 2) \o <<58>>
                     \o u32_to_padded_hex(thread[1].lr)
                     \o <<59, 116, 104, 114, 101, 97, 100, 58>>
                     \o HexText(thread_id) \o <<59>>
        ELSE ReplyS05

kSignalSigtrap == 5

\* One write to the client socket: the bytes, what they are, and the packet
\* (by its number among the packets extracted) they answer; 0 for none.
Write(kind, bytes, pkt) == [kind |-> kind, bytes |-> bytes, pkt |-> pkt]

\* The notification block as it would be if it paused the guest, a Processor
\* operation, before it looked at notify_stopped.
FlushNotification_Pause(io) ==
    LET w1 == ProcessorPause(io.w)
    IN  IF w1.cache.notify_stopped
        THEN LET c  == w1.cache
                 c1 == IF c.notify_bp_thread_id # NoThread
                       THEN [c EXCEPT !.cur_thread_id = c.notify_bp_thread_id]
                       ELSE c
                 reply == GetThreadStateReply(c1, c1.notify_bp_thread_id, kSignalSigtrap)
             IN  [io EXCEPT !.w = [w1 EXCEPT !.cache =
                                      [c1 EXCEPT !.notify_bp_thread_id = NoThread,
                                                 !.notify_stopped = FALSE]],
                            !.out = Append(@, Write("stop", SendPacket(reply), 0))]
        ELSE [io EXCEPT !.w = w1]

\* The notification block as it would be if it left notify_bp_thread_id set.
FlushNotification_KeepThread(io) ==
    IF io.w.cache.notify_stopped
    THEN LET c  == io.w.cache
             c1 == IF c.notify_bp_thread_id # NoThread
                   THEN [c EXCEPT !.cur_thread_id = c.notify_bp_thread_id]
                   ELSE c
             reply == GetThreadStateReply(c1, c1.notify_bp_thread_id, kSignalSigtrap)
         IN  [io EXCEPT !.w.cache = [c1 EXCEPT !.notify_stopped = FALSE],
                        !.out = Append(@, Write("stop", SendPacket(reply), 0))]
    ELSE io

\* The notification block of Listen's loop, lines 303-311, run under mtx_.
\* io holds the world w and the socket's log out.
FlushNotification(io) ==
    IF io.w.cache.notify_stopped
    THEN LET c  == io.w.cache
             c1 == IF c.notify_bp_thread_id # NoThread
                   THEN [c EXCEPT !.cur_thread_id = c.notify_bp_thread_id]
                   ELSE c
             reply == GetThreadStateReply(c1, c1.notify_bp_thread_id, kSignalSigtrap)
         IN  [io EXCEPT !.w.cache = [c1 EXCEPT !.notify_bp_thread_id = NoThread,
                                               !.notify_stopped = FALSE],
                        !.out = Append(@, Write("stop", SendPacket(reply), 0))]
    ELSE io

\* The record of one extracted packet: its bytes, whether it parsed, the
\* command; and for a dispatched command its reply, the Processor calls and
\* registry edits it made, and the current thread and last_bp_thread_id it
\* found.
PacketEntry(w, current_packet, parsed, r) ==
    [packet |-> current_packet, ok |-> parsed.ok, command |-> parsed.out_cmd,
     reply |-> IF parsed.ok THEN r.reply ELSE <<>>,
     effects |-> IF parsed.ok
                 THEN SubSeq(r.w.effects, Len(w.effects) + 1, Len(r.w.effects))
                 ELSE <<>>,
     cur_thread_id |-> w.cache.cur_thread_id,
     last_bp_thread_id |-> w.cache.last_bp_thread_id]

\* Lines 396-413 with the writes swapped: the reply goes out before the '+'.
AnswerPacket_ReplyFirst(io, current_packet) ==
    LET parsed == ParsePacket(current_packet)
        n      == Len(io.pkts) + 1
        r      == HandleGDBCommand(io.w, parsed.out_cmd)
        entry  == PacketEntry(io.w, current_packet, parsed, r)
    IN  IF parsed.ok
        THEN [io EXCEPT !.w = r.w, !.pkts = Append(@, entry),
                        !.out = @ \o <<Write("reply", SendPacket(r.reply), n),
                                       Write("ack", <<Ack>>, n)>>]
        ELSE [io EXCEPT !.pkts = Append(@, entry),
                        !.out = Append(@, Write("nack", <<Nack>>, n))]

\* Lines 396-413: parse the extracted packet; if it parses send '+', dispatch
\* the command and send the reply packet, else send '-'.  io holds the world
\* w, the receive buffer buf, the socket's log out, the packets extracted so
\* far pkts, and isInterrupt.
AnswerPacket(io, current_packet) ==
    LET parsed == ParsePacket(current_packet)
        n      == Len(io.pkts) + 1
        r      == HandleGDBCommand(io.w, parsed.out_cmd)
        entry  == PacketEntry(io.w, current_packet, parsed, r)
    IN  IF parsed.ok
        THEN [io EXCEPT !.w = r.w, !.pkts = Append(@, entry),
                        !.out = @ \o <<Write("ack", <<Ack>>, n),
                                       Write("reply", SendPacket(r.reply), n)>>]
        ELSE [io EXCEPT !.pkts = Append(@, entry),
                        !.out = Append(@, Write("nack", <<Nack>>, n))]

\* One pass of the extraction loop as it would be if it cut the buffer after
\* the '#' and left the two checksum characters in it.
ExtractStep_KeepChecksum(io) ==
    LET packet_end == Find(io.buf, PacketEnd)
    IN  IF io.isInterrupt
        THEN AnswerPacket([io EXCEPT !.buf = <<>>, !.isInterrupt = FALSE], <<Interrupt>>)
        ELSE AnswerPacket([io EXCEPT !.buf = Substr(io.buf, packet_end + 1)],
                          SubstrN(io.buf, 0, packet_end + 3))

\* One pass of the extraction loop that does not break, lines 385-413: the
\* interrupt empties the buffer; otherwise the packet, up to the second
\* character after the first '#', is cut off the front of the buffer.
ExtractStep(io) ==
    LET packet_end == Find(io.buf, PacketEnd)
    IN  IF io.isInterrupt
        THEN AnswerPacket([io EXCEPT !.buf = <<>>, !.isInterrupt = FALSE], <<Interrupt>>)
        ELSE AnswerPacket([io EXCEPT !.buf = Substr(io.buf, packet_end + 3)],
                          SubstrN(io.buf, 0, packet_end + 3))

\* The extraction loop of ProcessIncomingData, lines 383-417.
RECURSIVE ExtractPackets(_)
ExtractPackets(io) ==
    LET packet_end == Find(io.buf, PacketEnd)
    IN  IF ~(io.isInterrupt \/ packet_end # Len(io.buf))
        THEN io
        ELSE IF ~(io.isInterrupt \/ packet_end + 2 < Len(io.buf))
        THEN io
        ELSE ExtractPackets(ExtractStep(io))

\* ProcessIncomingData for the bytes one Receive returned (none: <<>>).
ProcessIncomingData(io, received) ==
    IF received = <<>>
    THEN [io EXCEPT !.result = FALSE]
    ELSE [ExtractPackets([io EXCEPT !.buf = @ \o received,
                                    !.isInterrupt = received[1] = Interrupt
                                                      /\ Len(received) = 1])
            EXCEPT !.result = TRUE]

(***************************************************************************)
(* What a debugger client writes: a body framed as '$' body '#' hh, with   *)
(* the protocol's escape for the reserved bytes and the checksum of the    *)
(* bytes on the wire.                                                      *)
(***************************************************************************)
IsReserved(c) == c = PacketStart \/ c = PacketEnd \/ c = EscapeChar

RECURSIVE ClientEscape(_)
ClientEscape(body) ==
    IF body = <<>> THEN <<>>
    ELSE (IF IsReserved(body[1]) THEN <<EscapeChar, Xor20(body[1])>> ELSE <<body[1]>>)
            \o ClientEscape(Tail(body))

ClientPacket(body) ==
    LET wire == ClientEscape(body)
        checksum == SumBytes(wire)
    IN  <<PacketStart>> \o wire \o <<PacketEnd>>
            \o <<HexDigit(checksum \div 16), HexDigit(checksum % 16)>>

\* "Z0,<addr>,4" and "z0,<addr>,4"
InsertBody(address) == <<90, 48, 44>> \o HexText(address) \o <<44, 52>>
RemoveBody(address) == <<122, 48, 44>> \o HexText(address) \o <<44, 52>>

(***************************************************************************)
(* Initial state: the stub as GDBStub::Create leaves it, no client yet.    *)
(***************************************************************************)
InitCache ==
    [is_stopped |-> FALSE, notify_stopped |-> FALSE,
     notify_bp_thread_id |-> NoThread, notify_bp_guest_address |-> NoAddress,
     cur_thread_id |-> NoThread, last_bp_thread_id |-> NoThread,
     thread_debug_infos |-> <<>>, modules |-> {},
     breakpoints |-> [all_breakpoints |-> <<>>,
                      code_breakpoints_by_guest_address |-> EmptyMap]]

InitProcessor ==
    [execution_state |-> Running, breakpoints |-> {}, pending |-> <<>>,
     stepping |-> NoThread, threads |-> ThreadInfos, modules |-> Modules]

World == [cache |-> cache, processor |-> processor, effects |-> <<>>]

InitStub ==
    /\ cache = UpdateCache([cache |-> InitCache, processor |-> InitProcessor,
                            effects |-> <<>>]).cache
    /\ processor = InitProcessor
    /\ receive_buffer = <<>>
    /\ sent = <<>>
    /\ session = [pc |-> "closed", connected |-> FALSE, pkts |-> <<>>, received |-> 0,
                  stop_thread_ |-> FALSE]
    /\ callback = [pc |-> "idle", ev |-> "none"]
    /\ mtx_ = "free"
    /\ effects = <<>>

InitCommon ==
    /\ InitStub
    /\ hist = <<>>
    /\ codec = [run |-> "none"]

(***************************************************************************)
(* SpecBp: the breakpoint registry under the requests that reach it.  Each *)
(* request arrives as a packet the client framed, is parsed and is         *)
(* dispatched.                                                              *)
(***************************************************************************)
MaxPending == 1   \* callbacks the Processor has queued and not yet delivered

Registry(c) ==
    [all |-> c.breakpoints.all_breakpoints,
     map |-> c.breakpoints.code_breakpoints_by_guest_address]

\* The breakpoints the registry holds: those of all_breakpoints and of the map.
Registered(c) ==
    {c.breakpoints.all_breakpoints[i] : i \in 1..Len(c.breakpoints.all_breakpoints)}
        \cup {c.breakpoints.code_breakpoints_by_guest_address[k] :
                k \in DOMAIN c.breakpoints.code_breakpoints_by_guest_address}

\* One request, for the record: what was asked and replied, whether the
\* address was registered before it, how many breakpoints it removed, whether it
\* left the registry and the Processor's breakpoints as they were; and the kind
\* and address of the request before it.
Request(kind, address, reply, w) ==
    [kind |-> kind, address |-> address, reply |-> reply,
     registered |-> \E b \in Registered(cache) : guest_address(b) = address,
     removed |-> Len(cache.breakpoints.all_breakpoints)
                   - Len(w.cache.breakpoints.all_breakpoints),
     same |-> Registry(w.cache) = Registry(cache)
                /\ w.processor.breakpoints = processor.breakpoints,
     host_shared |-> \E b \in Registered(cache) :
                        HostCode(address) \cap HostAddresses(b) # {},
     effects |-> w.effects,
     prev_removed |-> IF hist = <<>> THEN 0 ELSE hist[1].removed,
     prev_kind |-> IF hist = <<>> THEN "none" ELSE hist[1].kind,
     prev_address |-> IF hist = <<>> THEN NoAddress ELSE hist[1].address]

\* The bodies of the requests of SpecBp, and each as the stub parses the
\* packet the client frames for it.
RequestBodies ==
    {InsertBody(a) : a \in GuestAddresses} \cup {RemoveBody(a) : a \in GuestAddresses}
        \cup {<<68>>, <<Interrupt>>, <<99>>}

ParsedRequest[body \in RequestBodies] == ParsePacket(ClientPacket(body))

Dispatch(kind, address, body) ==
    LET parsed == ParsedRequest[body]
        r == HandleGDBCommand(World, parsed.out_cmd)
    IN  /\ parsed.ok
        /\ cache' = r.w.cache
        /\ processor' = r.w.processor
        /\ effects' = r.w.effects
        /\ hist' = <<Request(kind, address, r.reply, r.w)>>
        /\ UNCHANGED <<receive_buffer, sent, session, callback, mtx_, codec>>

BpInsert == \E a \in GuestAddresses : Dispatch("Z", a, InsertBody(a))

BpRemove == \E a \in GuestAddresses : Dispatch("z", a, RemoveBody(a))

BpDetach == Dispatch("D", NoAddress, <<68>>)

BpInterrupt ==
    /\ Len(processor.pending) < MaxPending
    /\ Dispatch("\\03", NoAddress, <<Interrupt>>)

BpContinue ==
    /\ Len(processor.pending) < MaxPending
    /\ Dispatch("c", NoAddress, <<99>>)

BpOnDetached ==
    LET w == OnDetached(World)
    IN  /\ cache' = w.cache
        /\ processor' = w.processor
        /\ effects' = w.effects
        /\ hist' = <<Request("OnDetached", NoAddress, <<>>, w)>>
        /\ UNCHANGED <<receive_buffer, sent, session, callback, mtx_, codec>>

\* The Processor delivers a queued OnExecutionPaused / OnExecutionContinued:
\* each refreshes the cache.
BpCallback ==
    /\ processor.pending # <<>>
    /\ LET w == UpdateCache([World EXCEPT !.processor.pending = Tail(@)])
       IN  /\ cache' = w.cache
           /\ processor' = w.processor
           /\ effects' = w.effects
    /\ UNCHANGED <<receive_buffer, sent, session, callback, mtx_, hist, codec>>

NextBp ==
    \/ BpInsert
    \/ BpRemove
    \/ BpDetach
    \/ BpInterrupt
    \/ BpContinue
    \/ BpOnDetached
    \/ BpCallback

SpecBp == InitCommon /\ [][NextBp]_vars


(***************************************************************************)
(* Claims on the breakpoint registry (SpecBp).                             *)
(***************************************************************************)
AllBreakpoints == cache.breakpoints.all_breakpoints

EffectOps(log) == {log[i].op : i \in 1..Len(log)}

\* C1: after any sequence of Z, z, D and OnDetached, no two breakpoints of
\* the registry have the same guest address, and no host address belongs to
\* two registry entries.
C1_RegistryAddressesUnique ==
    /\ \A i, j \in 1..Len(AllBreakpoints) :
           i # j => /\ guest_address(AllBreakpoints[i]) # guest_address(AllBreakpoints[j])
                    /\ HostAddresses(AllBreakpoints[i])
                         \cap HostAddresses(AllBreakpoints[j]) = {}
    /\ \A b1, b2 \in Registered(cache) :
           b1 # b2 => /\ guest_address(b1) # guest_address(b2)
                      /\ HostAddresses(b1) \cap HostAddresses(b2) = {}

\* Two breakpoints with host code are registered, the last request being an
\* insert that was refused.
C1_Witness ==
    /\ Len(AllBreakpoints) >= 2
    /\ \E i, j \in 1..Len(AllBreakpoints) :
           i # j /\ HostAddresses(AllBreakpoints[i]) # {}
                 /\ HostAddresses(AllBreakpoints[j]) # {}
    /\ hist # <<>> /\ hist[1].kind = "Z" /\ hist[1].reply = kGdbReplyError

RegistryRemovals == {"map.erase", "all.erase", "map.clear", "all.clear"}

\* Every edit of log that takes a breakpoint out of the registry comes after
\* the RemoveBreakpoint call for that breakpoint.
ProcessorRemovalFirst(log) ==
    \A j \in 1..Len(log) :
        log[j].op \in RegistryRemovals =>
            \A h \in log[j].bps :
                \E i \in 1..(j - 1) : log[i].op = "RemoveBreakpoint" /\ h \in log[i].bps

\* C2: in every reachable state the breakpoints installed with the Processor
\* are exactly those the registry holds (in all_breakpoints and in the map
\* alike), and in every handler the Processor-side removal of a breakpoint comes
\* no later than its deletion from the registry.
C2_ProcessorHoldsRegistry ==
    /\ processor.breakpoints = Registered(cache)
    /\ processor.breakpoints = {AllBreakpoints[i] : i \in 1..Len(AllBreakpoints)}
    /\ Cardinality(processor.breakpoints) = Len(AllBreakpoints)
    /\ DOMAIN cache.breakpoints.code_breakpoints_by_guest_address
         = {guest_address(b) : b \in processor.breakpoints}
    /\ ProcessorRemovalFirst(effects)
    /\ hist # <<>> => ProcessorRemovalFirst(hist[1].effects)

\* A breakpoint has just been removed by z while another stays installed.
C2_Witness ==
    /\ "all.erase" \in EffectOps(effects)
    /\ processor.breakpoints # {}
    /\ hist # <<>> /\ hist[1].kind = "z" /\ hist[1].removed = 1

\* C3: a Z whose guest address is registered already, or whose host addresses
\* meet those of a registered breakpoint, is answered E01, calls no
\* AddBreakpoint and leaves the registry and the Processor as they were.
C3_CollisionRejected ==
    (hist # <<>> /\ hist[1].kind = "Z" /\ (hist[1].registered \/ hist[1].host_shared))
        => /\ hist[1].reply = kGdbReplyError
           /\ "AddBreakpoint" \notin EffectOps(hist[1].effects)
           /\ hist[1].effects = <<>>
           /\ hist[1].same

\* A Z for an unregistered guest address was refused for its host addresses.
C3_Witness ==
    /\ hist # <<>> /\ hist[1].kind = "Z"
    /\ ~hist[1].registered /\ hist[1].host_shared
    /\ hist[1].reply = kGdbReplyError
    /\ Len(AllBreakpoints) >= 1

\* C4: a z is answered OK and removes one breakpoint when its address was
\* registered and none otherwise; a z that follows a z for the same address
\* leaves the registry as it was.
C4_RemoveIdempotent ==
    (hist # <<>> /\ hist[1].kind = "z")
        => /\ hist[1].reply = kGdbReplyOK
           /\ hist[1].removed \in {0, 1}
           /\ (hist[1].removed = 1) <=> hist[1].registered
           /\ (hist[1].prev_kind = "z" /\ hist[1].prev_address = hist[1].address)
                 => (hist[1].removed = 0 /\ hist[1].same)

\* Two z in a row for one address, the first of which removed the breakpoint.
C4_Witness ==
    /\ hist # <<>> /\ hist[1].kind = "z"
    /\ hist[1].prev_kind = "z" /\ hist[1].prev_address = hist[1].address
    /\ hist[1].prev_removed = 1
    /\ hist[1].reply = kGdbReplyOK


(***************************************************************************)
(* SpecCodec: the codec as a function.  The initial states draw a body;    *)
(* CodecReply frames it as the stub frames a reply (SendPacket) and        *)
(* CodecRequest as a client frames a request (escaped), and each parses    *)
(* the packet with ParsePacket.                                            *)
(***************************************************************************)
MaxBody == 4    \* the longest body drawn

\* Body bytes: q v : . ; Z ~ space 0, the reserved $ # }, and NUL.
BodyChars == {113, 118, 58, 46, 59, 90, 126, 32, 48, PacketStart, PacketEnd, EscapeChar, NulChar}

RECURSIVE SeqsUpTo(_, _)
SeqsUpTo(S, n) ==
    IF n = 0 THEN {<<>>}
    ELSE LET shorter == SeqsUpTo(S, n - 1)
         IN  shorter \cup {Append(b, c) : b \in {x \in shorter : Len(x) = n - 1}, c \in S}

Bodies == SeqsUpTo(BodyChars, MaxBody)

InitCodec ==
    /\ InitStub
    /\ hist = <<>>
    /\ \E body \in Bodies : codec = [run |-> "none", body |-> body]

CodecRun(run, packet) ==
    /\ codec.run = "none"
    /\ codec' = [run |-> run, body |-> codec.body, packet |-> packet,
                 parsed |-> ParsePacket(packet)]
    /\ UNCHANGED <<cache, processor, receive_buffer, sent, session, callback, mtx_,
                   effects, hist>>

CodecReply == CodecRun("reply", SendPacket(codec.body))

CodecRequest == CodecRun("request", ClientPacket(codec.body))

NextCodec == CodecReply \/ CodecRequest

SpecCodec == InitCodec /\ [][NextCodec]_vars

(***************************************************************************)
(* Claims on the codec (SpecCodec).                                        *)
(***************************************************************************)
Contains(s, c) == \E i \in 1..Len(s) : s[i] = c

HasReserved(body) == \E i \in 1..Len(body) : IsReserved(body[i])

\* Printable ASCII with none of '$', '#', '}'.
IsPlain(body) ==
    \A i \in 1..Len(body) : body[i] >= 32 /\ body[i] <= 126 /\ ~IsReserved(body[i])

\* The two hex digits that end a packet, as a number; -1 when either is no
\* hex digit.
TransmittedChecksum(packet) ==
    LET n == Len(packet)
    IN  IF n >= 2 /\ IsHexChar(packet[n - 1]) /\ IsHexChar(packet[n])
        THEN from_hexchar(packet[n - 1]) * 16 + from_hexchar(packet[n])
        ELSE -1

\* C6 (as claimed): a packet a client builds by escaping each reserved byte
\* as '}' and the byte XOR 0x20, with the checksum of the bytes on the wire, is
\* accepted, and the bytes the receiver yields are the body.
C6_EscapeRoundTrip ==
    (codec.run = "request" /\ ~Contains(codec.body, NulChar))
        => /\ codec.parsed.ok
           /\ codec.parsed.out_cmd.cmd \o codec.parsed.out_cmd.data = codec.body

\* C7: the packet SendPacket builds for a body of printable ASCII without
\* '$', '#', '}' is accepted by ParsePacket, cmd and data together are the
\* body, and the parsed checksum is the one SendPacket wrote, the sum of the
\* body modulo 256.
C7_PlainRoundTrip ==
    (codec.run = "reply" /\ IsPlain(codec.body))
        => /\ codec.parsed.ok
           /\ codec.parsed.out_cmd.cmd \o codec.parsed.out_cmd.data = codec.body
           /\ codec.parsed.out_cmd.checksum = TransmittedChecksum(codec.packet)
           /\ codec.parsed.out_cmd.checksum = SumBytes(codec.body)
           /\ Len(codec.packet) = Len(codec.body) + 4

\* A body of the longest length whose checksum wrapped past 255 and is below
\* 16 (a leading zero digit) went through SendPacket and came back.
C7_Witness ==
    /\ codec.run = "reply" /\ IsPlain(codec.body)
    /\ Len(codec.body) >= 3
    /\ codec.parsed.ok
    /\ codec.parsed.out_cmd.checksum < 16
    /\ codec.parsed.out_cmd.data # <<>>

IsDelimiter(c) == c = 58 \/ c = 46 \/ c = 59

\* The 1-based place of the first ':', '.' or ';' of body, or Len(body) + 1.
FirstDelimiter(body) ==
    IF \E i \in 1..Len(body) : IsDelimiter(body[i])
    THEN CHOOSE i \in 1..Len(body) :
             IsDelimiter(body[i]) /\ \A j \in 1..(i - 1) : ~IsDelimiter(body[j])
    ELSE Len(body) + 1

StartsWithQV(body) == body # <<>> /\ (body[1] = 113 \/ body[1] = 118)

\* C8 (as claimed): for a body that starts with 'q' or 'v', cmd is the bytes
\* before the first ':', '.' or ';' and data the bytes strictly after it.
C8_DelimiterDiscarded ==
    (codec.run = "request" /\ StartsWithQV(codec.body) /\ ~Contains(codec.body, NulChar))
        => /\ codec.parsed.out_cmd.cmd
                = SubSeq(codec.body, 1, FirstDelimiter(codec.body) - 1)
           /\ codec.parsed.out_cmd.data
                = SubSeq(codec.body, FirstDelimiter(codec.body) + 1, Len(codec.body))

\* The bytes of a body ParsePacket walks: those before its first NUL, where
\* the walk ends.
Walked(body) == SubSeq(body, 1, Find(body, NulChar))

\* C8 (amended): for a body that starts with 'q' or 'v', cmd is the bytes
\* before the first ':', '.' or ';', and data the bytes from that delimiter
\* on, the delimiter itself being the first byte of data (of the bytes before
\* the body's first NUL, if it has one).
C8_DelimiterStartsData ==
    (codec.run = "request" /\ StartsWithQV(codec.body))
        => /\ codec.parsed.out_cmd.cmd
                = SubSeq(Walked(codec.body), 1, FirstDelimiter(Walked(codec.body)) - 1)
           /\ codec.parsed.out_cmd.data
                = SubSeq(Walked(codec.body), FirstDelimiter(Walked(codec.body)),
                         Len(Walked(codec.body)))

\* A request "q..." with a delimiter in the middle and bytes after it was parsed.
C8_Witness ==
    /\ codec.run = "request" /\ StartsWithQV(codec.body)
    /\ ~Contains(codec.body, NulChar)
    /\ FirstDelimiter(codec.body) > 2
    /\ FirstDelimiter(codec.body) < Len(codec.body)
    /\ codec.parsed.ok
    /\ IsDelimiter(codec.parsed.out_cmd.data[1])

(***************************************************************************)
(* SpecRecv: one connected session fed arbitrary byte chunks.  The state   *)
(* starts as Listen leaves it before its loop; each step is one iteration  *)
(* of the loop: ProcessIncomingData on what Receive returned, then the     *)
(* notification block.                                                      *)
(***************************************************************************)
MaxRecv == 2     \* Receive calls that return data, per connection
MaxChunk == 3    \* the most bytes one Receive returns

\* '$' '#' '}' '+' '\03' '0' 'a'
RecvChars == {PacketStart, PacketEnd, EscapeChar, Ack, Interrupt, 48, 97}

RecvChunks == SeqsUpTo(RecvChars, MaxChunk) \ {<<>>}

\* Listen, lines 281-282: the client is connected; pause and refresh.
Connected(w) == UpdateCache(ExecutionPause(w).w)

SessionIO ==
    [w |-> World, buf |-> receive_buffer, out |-> sent, pkts |-> session.pkts,
     isInterrupt |-> FALSE, result |-> FALSE]

InitRecv ==
    LET w == Connected([cache |-> UpdateCache([cache |-> InitCache,
                                               processor |-> InitProcessor,
                                               effects |-> <<>>]).cache,
                        processor |-> InitProcessor, effects |-> <<>>])
    IN  /\ cache = w.cache
        /\ processor = w.processor
        /\ effects = w.effects
        /\ receive_buffer = <<>>
        /\ sent = <<>>
        /\ session = [pc |-> "loop", connected |-> TRUE, pkts |-> <<>>, received |-> 0,
                  stop_thread_ |-> FALSE]
        /\ callback = [pc |-> "idle", ev |-> "none"]
        /\ mtx_ = "free"
        /\ hist = <<>>
        /\ codec = [run |-> "none"]

\* The last Receive that returned data, for the record: what the receive
\* buffer held once the chunk was appended (line 373), and how many packets
\* had been extracted before.
Received(chunk) ==
    [buffer |-> receive_buffer \o chunk, chunk |-> chunk, pkts_at |-> Len(session.pkts)]

\* One iteration of Listen's loop in which Receive returns chunk.
RecvBytes ==
    /\ session.received < MaxRecv
    /\ \E chunk \in RecvChunks :
           LET io == FlushNotification(ProcessIncomingData(SessionIO, chunk))
           IN  /\ cache' = io.w.cache
               /\ processor' = io.w.processor
               /\ effects' = io.w.effects
               /\ receive_buffer' = io.buf
               /\ sent' = io.out
               /\ session' = [session EXCEPT !.pkts = io.pkts, !.received = @ + 1]
               /\ hist' = <<Received(chunk)>>
    /\ UNCHANGED <<callback, mtx_, codec>>

\* The Processor delivers a queued OnExecutionPaused / OnExecutionContinued
\* between two iterations.
RecvCallback ==
    /\ processor.pending # <<>>
    /\ LET w == UpdateCache([World EXCEPT !.processor.pending = Tail(@)])
       IN  /\ cache' = w.cache
           /\ processor' = w.processor
           /\ effects' = w.effects
    /\ UNCHANGED <<receive_buffer, sent, session, callback, mtx_, hist, codec>>

NextRecv == RecvBytes \/ RecvCallback

SpecRecv == InitRecv /\ [][NextRecv]_vars

(***************************************************************************)
(* Claims on the receiver (SpecRecv).                                      *)
(***************************************************************************)
\* What the stub wrote for the n-th extracted packet, in order.
WritesFor(n) == SelectSeq(sent, LAMBDA x : x.pkt = n)

WriteKinds(n) == [i \in 1..Len(WritesFor(n)) |-> WritesFor(n)[i].kind]

\* The bytes of a packet strictly between its '$' and its '#': the body on
\* the wire; none when no '$' comes before the '#'.
WireBody(packet) ==
    LET start == Find(packet, PacketStart)
        end   == Find(packet, PacketEnd)
    IN  IF start < end THEN SubSeq(packet, start + 2, end) ELSE <<>>

\* The two characters after the packet's first '#', as the checksum a sender
\* meant: -1 when either is no hex digit.
CheckDigits(packet) ==
    LET end == Find(packet, PacketEnd)
    IN  IF end + 3 <= Len(packet) /\ IsHexChar(packet[end + 2]) /\ IsHexChar(packet[end + 3])
        THEN from_hexchar(packet[end + 2]) * 16 + from_hexchar(packet[end + 3])
        ELSE -1

\* C5 (as claimed): every extracted packet gets either '+' (and its command
\* is dispatched and answered) or '-', never both and never neither; and no
\* command is dispatched from a packet whose transmitted checksum differs from
\* the sum of its body bytes modulo 256.  The lone interrupt byte has no
\* checksum and is left out.
C5_AckOrNackChecksumVerified ==
    \A n \in 1..Len(session.pkts) :
        LET p == session.pkts[n]
        IN  /\ p.ok => WriteKinds(n) = <<"ack", "reply">>
            /\ ~p.ok => WriteKinds(n) = <<"nack">>
            /\ (p.ok /\ p.packet # <<Interrupt>>)
                   => CheckDigits(p.packet) = SumBytes(WireBody(p.packet))

\* The part of C5 the code keeps: one of the two outcomes for every packet.
C5_AckOrNack ==
    \A n \in 1..Len(session.pkts) :
        LET p == session.pkts[n]
        IN  /\ p.ok => WriteKinds(n) = <<"ack", "reply">>
            /\ ~p.ok => WriteKinds(n) = <<"nack">>

(***************************************************************************)
(* Spec: the session thread, the Processor's callback thread and the       *)
(* guest, interleaved.  The session thread runs Listen: connect, then the  *)
(* loop of receive-and-dispatch and notification flush.  The callback      *)
(* thread delivers the Processor's queued callbacks: the writes a callback *)
(* makes before UpdateCache are one step, taking mtx_ another, the refresh *)
(* under mtx_ a third.  A dispatch runs on the session thread without      *)
(* mtx_, and is one step.                                                  *)
(***************************************************************************)
MaxSessionRecv == 3   \* Receive calls that return data, per connection
MaxHits == 1          \* breakpoints the guest runs into

\* What the client sends, one chunk per Receive: the interrupt byte, c, s,
\* the two packets ? and ! at once, a ? with a wrong checksum followed by a
\* good !, and Z0 at 0x100.
ClientChunks ==
    { <<Interrupt>>,
      ClientPacket(<<99>>),
      ClientPacket(<<115>>),
      ClientPacket(<<63>>) \o ClientPacket(<<33>>),
      <<PacketStart, 63, PacketEnd, 48, 48>> \o ClientPacket(<<33>>),
      ClientPacket(InsertBody(256)) }

\* The record of a breakpoint hit: what was hit; whether no notification was
\* armed and no callback outstanding when it happened; the stop notifications
\* sent since; whether the guest has been resumed, paused or stepped since
\* (which ends the count); and how many packets had been extracted when it
\* happened (pkts_at), when OnBreakpointHit wrote the one-shot fields
\* (armed_at) and when the first stop notification after that was sent
\* (notified_at), -1 while that has not happened.
Hit(address, thread_id) ==
    [address |-> address, thread_id |-> thread_id,
     clean |-> ~cache.notify_stopped /\ processor.pending = <<>> /\ callback.pc = "idle",
     stops |-> 0, over |-> FALSE,
     pkts_at |-> Len(session.pkts), armed_at |-> -1, notified_at |-> -1]

HitsOver(h) == [i \in DOMAIN h |-> [h[i] EXCEPT !.over = TRUE]]

HitsCountStop(h) ==
    [i \in DOMAIN h |->
        [h[i] EXCEPT !.stops = IF h[i].over THEN @ ELSE @ + 1,
                     !.notified_at = IF h[i].armed_at # -1 /\ @ = -1
                                     THEN Len(session.pkts) ELSE @]]

\* OnBreakpointHit has written the one-shot fields for the earliest hit that
\* was not yet reported.
HitsArmed(h) ==
    [i \in DOMAIN h |->
        IF h[i].armed_at = -1 /\ \A j \in 1..(i - 1) : h[j].armed_at # -1
        THEN [h[i] EXCEPT !.armed_at = Len(session.pkts)]
        ELSE h[i]]

\* Listen, line 281: a client connected; ExecutionPause.
Connect ==
    /\ session.pc = "closed"
    /\ LET r == ExecutionPause(World)
       IN  /\ cache' = r.w.cache
           /\ processor' = r.w.processor
           /\ effects' = r.w.effects
    /\ session' = [session EXCEPT !.pc = "update", !.connected = TRUE]
    /\ receive_buffer' = <<>>
    /\ UNCHANGED <<sent, callback, mtx_, hist, codec>>

\* The session thread takes mtx_: line 519 (UpdateCache) or line 303.
SessionLock ==
    /\ session.pc \in {"update", "flush"}
    /\ mtx_ = "free"
    /\ mtx_' = "session"
    /\ session' = [session EXCEPT !.pc = IF @ = "update" THEN "updating" ELSE "flushing"]
    /\ UNCHANGED <<cache, processor, receive_buffer, sent, callback, effects, hist, codec>>

\* Listen, line 282: UpdateCache, then into the loop.
ConnectUpdateCache ==
    /\ session.pc = "updating"
    /\ LET w == UpdateCache(World)
       IN  /\ cache' = w.cache
           /\ processor' = w.processor
           /\ effects' = w.effects
    /\ mtx_' = "free"
    /\ session' = [session EXCEPT !.pc = "loop"]
    /\ UNCHANGED <<receive_buffer, sent, callback, hist, codec>>

\* Lines 289-293: the client is connected and Receive returns one of chunks,
\* which happens at most max times in a connection.
\* Line 288 as it would be with while (true).
LoopCondition_Always == TRUE

\* Line 288: while (!stop_thread_).
LoopCondition == ~session.stop_thread_

ReceiveFrom(chunks, max) ==
    /\ session.pc = "loop"
    /\ LoopCondition
    /\ session.connected
    /\ session.received < max
    /\ \E chunk \in chunks :
           LET io == ProcessIncomingData(SessionIO, chunk)
           IN  /\ cache' = io.w.cache
               /\ processor' = io.w.processor
               /\ effects' = io.w.effects
               /\ receive_buffer' = io.buf
               /\ sent' = io.out
               /\ session' = [session EXCEPT !.pc = "flush", !.pkts = io.pkts,
                                             !.received = @ + 1]
               /\ hist' = IF Len(io.w.processor.pending) # Len(processor.pending)
                             \/ io.w.processor.execution_state # processor.execution_state
                          THEN HitsOver(hist) ELSE hist
    /\ UNCHANGED <<callback, mtx_, codec>>

Receive == ReceiveFrom(ClientChunks, MaxSessionRecv)

\* Lines 293-299: Receive returns nothing and the client is still there.
ReceiveNothing ==
    /\ session.pc = "loop"
    /\ LoopCondition
    /\ session.connected
    /\ session' = [session EXCEPT !.pc = "flush"]
    /\ UNCHANGED <<cache, processor, receive_buffer, sent, callback, mtx_, effects, hist, codec>>

\* Lines 303-312: the notification block, under mtx_.  A write to a socket
\* the client has closed goes nowhere.
SessionFlush ==
    /\ session.pc = "flushing"
    /\ LET io == FlushNotification(SessionIO)
       IN  /\ cache' = io.w.cache
           /\ sent' = IF session.connected THEN io.out ELSE sent
           /\ hist' = IF session.connected /\ io.out # sent
                      THEN HitsCountStop(hist) ELSE hist
    /\ mtx_' = "free"
    /\ session' = [session EXCEPT !.pc = "loop"]
    /\ UNCHANGED <<processor, receive_buffer, callback, effects, codec>>

\* The client closes the connection.
Disconnect ==
    /\ session.connected
    /\ session' = [session EXCEPT !.connected = FALSE]
    /\ UNCHANGED <<cache, processor, receive_buffer, sent, callback, mtx_, effects, hist, codec>>

\* Lines 288, 289-291 and 294-296: the loop ends and Listen returns.
LoopExit ==
    /\ session.pc = "loop"
    /\ ~LoopCondition \/ ~session.connected
    /\ session' = [session EXCEPT !.pc = "ended"]
    /\ UNCHANGED <<cache, processor, receive_buffer, sent, callback, mtx_, effects, hist, codec>>

\* The running guest reaches an installed breakpoint on one of its threads:
\* the Processor pauses, and reports the pause and the hit, in either order.
BreakpointHit ==
    /\ processor.execution_state = Running
    /\ Len(hist) < MaxHits
    /\ \E b \in processor.breakpoints :
         \E i \in 1..Len(processor.threads) :
           \E paused_first \in BOOLEAN :
             LET thread_id == processor.threads[i].thread_id
                 hit    == Event("OnBreakpointHit", guest_address(b), thread_id)
                 paused == Event("OnExecutionPaused", NoAddress, NoThread)
             IN  /\ processor' =
                       [processor EXCEPT
                          !.execution_state = Paused,
                          !.pending = @ \o (IF paused_first THEN <<paused, hit>>
                                            ELSE <<hit, paused>>)]
                 /\ hist' = Append(HitsOver(hist), Hit(guest_address(b), thread_id))
    /\ UNCHANGED <<cache, receive_buffer, sent, session, callback, mtx_, effects, codec>>

\* The stepped thread has run its instruction: the Processor is paused again
\* and reports the step.
StepCompleted ==
    /\ processor.execution_state = Stepping
    /\ processor' = [processor EXCEPT
                       !.execution_state = Paused,
                       !.stepping = NoThread,
                       !.pending = Append(@, Event("OnStepCompleted", NoAddress,
                                                   processor.stepping))]
    /\ hist' = HitsOver(hist)
    /\ UNCHANGED <<cache, receive_buffer, sent, session, callback, mtx_, effects, codec>>

\* The writes a callback makes before it calls UpdateCache, without mtx_:
\* lines 774-776 (OnStepCompleted) and 787-789 (OnBreakpointHit).
CallbackWrites(c, e) ==
    CASE e.ev = "OnBreakpointHit" ->
             [c EXCEPT !.notify_bp_guest_address = e.address,
                       !.notify_bp_thread_id = e.thread_id,
                       !.last_bp_thread_id = e.thread_id]
      [] e.ev = "OnStepCompleted" ->
             [c EXCEPT !.notify_bp_thread_id = e.thread_id,
                       !.last_bp_thread_id = e.thread_id]
      [] OTHER -> c

\* The Processor makes its next callback: lines 748-791 up to UpdateCache.
CallbackBegin ==
    /\ callback.pc = "idle"
    /\ processor.pending # <<>>
    /\ cache' = CallbackWrites(cache, Head(processor.pending))
    /\ processor' = [processor EXCEPT !.pending = Tail(@)]
    /\ callback' = [pc |-> "update", ev |-> Head(processor.pending).ev]
    /\ hist' = IF Head(processor.pending).ev = "OnBreakpointHit"
               THEN HitsArmed(hist) ELSE hist
    /\ UNCHANGED <<receive_buffer, sent, session, mtx_, effects, codec>>

\* UpdateCache, line 519: the callback takes mtx_.
CallbackLock ==
    /\ callback.pc = "update"
    /\ mtx_ = "free"
    /\ mtx_' = "callback"
    /\ callback' = [callback EXCEPT !.pc = "updating"]
    /\ UNCHANGED <<cache, processor, receive_buffer, sent, session, effects, hist, codec>>

\* UpdateCache, lines 521-535, and the callback returns.
CallbackUpdateCache ==
    /\ callback.pc = "updating"
    /\ LET w == UpdateCache(World)
       IN  /\ cache' = w.cache
           /\ processor' = w.processor
           /\ effects' = w.effects
    /\ mtx_' = "free"
    /\ callback' = [pc |-> "idle", ev |-> "none"]
    /\ UNCHANGED <<receive_buffer, sent, session, hist, codec>>

Next ==
    \/ Connect
    \/ SessionLock
    \/ ConnectUpdateCache
    \/ Receive
    \/ ReceiveNothing
    \/ SessionFlush
    \/ Disconnect
    \/ LoopExit
    \/ BreakpointHit
    \/ StepCompleted
    \/ CallbackBegin
    \/ CallbackLock
    \/ CallbackUpdateCache

Spec == InitCommon /\ [][Next]_vars

(***************************************************************************)
(* Claims on the session (Spec).                                           *)
(***************************************************************************)
\* The writes that answer packets, without the stop notifications.
Answers == SelectSeq(sent, LAMBDA x : x.pkt # 0)

\* The reply body of the commands whose reply depends on nothing: ? and !.
FixedReply(cmd) == IF cmd = <<63>> THEN ReplyS05 ELSE kGdbReplyOK

\* C9: within a connection the writes that answer packets come in the order
\* the packets were extracted; an accepted packet's writes are '+' and then
\* its reply packet, next to each other, before anything for a later packet;
\* the replies of ? and ! are the packets S05 and OK.
C9_RepliesInParseOrder ==
    /\ \A i \in 1..(Len(Answers) - 1) : Answers[i].pkt <= Answers[i + 1].pkt
    /\ \A i \in 1..Len(Answers) : Answers[i].pkt \in 1..Len(session.pkts)
    /\ \A n \in 1..Len(session.pkts) :
           session.pkts[n].ok =>
               /\ WriteKinds(n) = <<"ack", "reply">>
               /\ \E i \in 1..(Len(sent) - 1) :
                      /\ sent[i] = Write("ack", <<Ack>>, n)
                      /\ sent[i + 1].kind = "reply" /\ sent[i + 1].pkt = n
               /\ session.pkts[n].command.cmd \in {<<63>>, <<33>>}
                      => WritesFor(n)[2].bytes
                             = SendPacket(FixedReply(session.pkts[n].command.cmd))

\* Two chunks of two packets each were answered: ? and ! accepted in one, a
\* rejected ? and an accepted ! in another, with a stop notification sent
\* somewhere between the answers.
C9_Witness ==
    /\ \E n \in 1..(Len(session.pkts) - 1) :
           /\ session.pkts[n].ok /\ session.pkts[n].command.cmd = <<63>>
           /\ session.pkts[n + 1].ok /\ session.pkts[n + 1].command.cmd = <<33>>
    /\ \E n \in 1..(Len(session.pkts) - 1) :
           ~session.pkts[n].ok /\ session.pkts[n + 1].ok
    /\ \E i \in 2..(Len(sent) - 1) : sent[i].kind = "stop"
    /\ Len(Answers) >= 7

\* C10 (as claimed): after a breakpoint hit that found no notification armed
\* and no callback outstanding, and until the guest is resumed, paused or
\* stepped again, the session loop sends at most one stop notification.
C10_AtMostOneStopReply ==
    \A i \in 1..Len(hist) : hist[i].clean => hist[i].stops <= 1

(***************************************************************************)
(* SpecStop: a session in which the guest runs with a breakpoint at 0x100  *)
(* installed.  It starts where a session stands after the client connected, *)
(* got its first stop notification, sent Z0,100,4 and c, and the Processor's *)
(* callbacks for these were delivered; from there the guest hits the        *)
(* breakpoint, the callbacks and the session loop interleave as in Spec,    *)
(* and the client reads registers, steps and continues.                     *)
(***************************************************************************)
MaxStopRecv == 2   \* Receive calls that return data, from the start of SpecStop

\* p40 (register 64), g and p40 at once, c and s.
StopChunks ==
    { ClientPacket(<<112, 52, 48>>),
      ClientPacket(<<103>>) \o ClientPacket(<<112, 52, 48>>),
      ClientPacket(<<99>>),
      ClientPacket(<<115>>) }

\* The session at the start of SpecStop.  The client has connected (which
\* paused the guest), OnExecutionPaused has been delivered and its S05 sent,
\* the client has sent Z0,100,4 and then c, and OnExecutionContinued has been
\* delivered: the guest runs with a breakpoint at 0x100.
StopBreakpoint == [address |-> 256, handle |-> 1]

StopCache ==
    [breakpoints |-> [all_breakpoints |-> <<StopBreakpoint>>,
                      code_breakpoints_by_guest_address |-> (256 :> StopBreakpoint)],
     is_stopped |-> FALSE, notify_stopped |-> FALSE, modules |-> Modules,
     thread_debug_infos |-> ThreadInfos, cur_thread_id |-> ThreadInfos[1].thread_id,
     notify_bp_guest_address |-> NoAddress, last_bp_thread_id |-> NoThread,
     notify_bp_thread_id |-> NoThread]

StopProcessor == [InitProcessor EXCEPT !.breakpoints = {StopBreakpoint}]

StopPkts ==
    << [packet |-> ClientPacket(InsertBody(256)), ok |-> TRUE,
        command |-> [cmd |-> <<90>>, data |-> Tail(InsertBody(256)),
                     checksum |-> SumBytes(InsertBody(256))],
        reply |-> kGdbReplyOK,
        effects |-> << Effect("map.emplace", {1}, NoThread),
                       Effect("AddBreakpoint", {1}, NoThread),
                       Effect("all.emplace_back", {1}, NoThread) >>,
        cur_thread_id |-> ThreadInfos[1].thread_id, last_bp_thread_id |-> NoThread],
       [packet |-> ClientPacket(<<99>>), ok |-> TRUE,
        command |-> [cmd |-> <<99>>, data |-> <<>>, checksum |-> 99],
        reply |-> kGdbReplyOK,
        effects |-> << Effect("Continue", {}, NoThread) >>,
        cur_thread_id |-> ThreadInfos[1].thread_id, last_bp_thread_id |-> NoThread] >>

StopSent ==
    << Write("stop", SendPacket(<<83, 48, 53>>), 0),
       Write("ack", <<Ack>>, 1), Write("reply", SendPacket(kGdbReplyOK), 1),
       Write("ack", <<Ack>>, 2), Write("reply", SendPacket(kGdbReplyOK), 2) >>

InitStop ==
    /\ cache = StopCache
    /\ processor = StopProcessor
    /\ effects = <<>>
    /\ receive_buffer = <<>>
    /\ sent = StopSent
    /\ session = [pc |-> "loop", connected |-> TRUE, pkts |-> StopPkts, received |-> 0,
                  stop_thread_ |-> FALSE]
    /\ callback = [pc |-> "idle", ev |-> "none"]
    /\ mtx_ = "free"
    /\ hist = <<>>
    /\ codec = [run |-> "none"]

StopReceive == ReceiveFrom(StopChunks, MaxStopRecv)

NextStop ==
    \/ StopReceive
    \/ ReceiveNothing
    \/ SessionLock
    \/ SessionFlush
    \/ BreakpointHit
    \/ StepCompleted
    \/ CallbackBegin
    \/ CallbackLock
    \/ CallbackUpdateCache

SpecStop == InitStop /\ [][NextStop]_vars

(***************************************************************************)
(* Claims on stops and register reads (SpecStop).                          *)
(***************************************************************************)
\* A dispatched read of register 64: p with id 0x40, or g.
IsPcRead(e) ==
    /\ e.ok
    /\ \/ e.command.cmd = <<112>> /\ hex_to_u32(e.command.data) = kPcRegister
       \/ e.command.cmd = <<103>>

\* The PC the read replied: the whole reply of p, the 8 characters of
\* register 64 in the reply of g.
PcText(e) == IF e.command.cmd = <<103>> THEN SubSeq(e.reply, 769, 776) ELSE e.reply

\* The packets up to the next hit, or up to now.
LastPacketOfHit(i) == IF i < Len(hist) THEN hist[i + 1].pkts_at ELSE Len(session.pkts)

\* Of the PC reads among the packets after the from-th, up to the next hit,
\* the first replied the address of hit i and each later one the frame PC of
\* the thread that was current.
PcReadsForcedOnce(i, from) ==
    LET reads == {n \in (from + 1)..LastPacketOfHit(i) : IsPcRead(session.pkts[n])}
    IN  \A n \in reads :
            PcText(session.pkts[n])
                = IF \A m \in reads : n <= m
                  THEN u32_to_padded_hex(hist[i].address)
                  ELSE FramePc(thread_info(cache, session.pkts[n].cur_thread_id))

\* C11: once the stop notification of a breakpoint hit at A has
\* been sent, the first read of register 64 replies A, and every later one
\* until another hit replies the current thread's frame PC.
C11_ForcedPcAfterNotification ==
    \A i \in 1..Len(hist) :
        hist[i].notified_at # -1 => PcReadsForcedOnce(i, hist[i].notified_at)

\* What ReadRegister does keep: counted from the moment OnBreakpointHit
\* recorded a hit at A, whether or not the stop notification has been sent
\* yet, the first read of register 64 replies A and disarms
\* notify_bp_guest_address, and every later one until another hit replies
\* the current thread's frame PC.
C11_ForcedPcAfterHit ==
    \A i \in 1..Len(hist) :
        hist[i].armed_at # -1 =>
            /\ PcReadsForcedOnce(i, hist[i].armed_at)
            /\ (i = Len(hist)
                  /\ \E n \in (hist[i].armed_at + 1)..Len(session.pkts) :
                         IsPcRead(session.pkts[n]))
                   => cache.notify_bp_guest_address = NoAddress

\* After a hit on thread 9 was notified, a g replied the breakpoint address
\* as register 64 and a later p replied a frame PC that is not the address.
C11_Witness ==
    \E i \in 1..Len(hist) :
        /\ hist[i].notified_at # -1
        /\ \E n \in (hist[i].notified_at + 1)..Len(session.pkts) :
             \E m \in (n + 1)..Len(session.pkts) :
               /\ session.pkts[n].ok /\ session.pkts[n].command.cmd = <<103>>
               /\ PcText(session.pkts[n]) = u32_to_padded_hex(hist[i].address)
               /\ session.pkts[m].ok /\ session.pkts[m].command.cmd = <<112>>
               /\ PcText(session.pkts[m]) # u32_to_padded_hex(hist[i].address)

(***************************************************************************)
(* The end of a session (Spec).                                            *)
(***************************************************************************)
\* C12: when Listen has returned because the client disconnected, no
\* breakpoint is left in the registry or installed in the Processor, and the
\* Processor is not left in a pause the session asked for (before any
\* breakpoint hit, every pause is one the session asked for).
C12_SessionEndCleansUp ==
    session.pc = "ended" =>
        /\ cache.breakpoints.all_breakpoints = <<>>
        /\ cache.breakpoints.code_breakpoints_by_guest_address = EmptyMap
        /\ processor.breakpoints = {}
        /\ hist = <<>> => processor.execution_state # Paused

(***************************************************************************)
(* The D command (SpecBp).                                                 *)
(***************************************************************************)
\* The handles RemoveBreakpoint was called with.
RemovedHandles(log) ==
    UNION {log[i].bps : i \in {j \in 1..Len(log) : log[j].op = "RemoveBreakpoint"}}

\* C13: a D command, whatever the registry holds, calls RemoveBreakpoint for
\* every breakpoint of the registry, leaves the Processor without breakpoints
\* and the registry empty, calls Continue if and only if the execution state
\* was Paused, replies OK, and leaves the session as it was, open for the
\* next command.
C13_DetachClearsAndResumes ==
    [][BpDetach =>
         /\ RemovedHandles(effects') = AllHandles(World)
         /\ processor'.breakpoints = {}
         /\ cache'.breakpoints.all_breakpoints = <<>>
         /\ cache'.breakpoints.code_breakpoints_by_guest_address = EmptyMap
         /\ ("Continue" \in EffectOps(effects')) <=> (processor.execution_state = Paused)
         /\ processor.execution_state = Paused => processor'.execution_state = Running
         /\ hist'[1].reply = kGdbReplyOK
         /\ session' = session]_vars

\* A D that found the guest paused and two breakpoints registered has been
\* answered: both were removed and Continue was called.
C13_Witness ==
    /\ hist # <<>>
    /\ hist[1].kind = "D" /\ hist[1].reply = kGdbReplyOK
    /\ hist[1].removed = 2
    /\ "Continue" \in EffectOps(hist[1].effects)
    /\ processor.execution_state = Running /\ processor.breakpoints = {}

(***************************************************************************)
(* SpecReg: the register and thread commands against a stopped guest.  A   *)
(* session is open, the cache holds the snapshot of the two threads, the   *)
(* current thread is one of them, and a breakpoint hit may have armed the  *)
(* forced PC.  Each request is a packet the client framed, parsed and      *)
(* dispatched.                                                              *)
(***************************************************************************)
MaxRegisterId == 75   \* the p requests name the ids 0..MaxRegisterId

RegisterIds == 0..MaxRegisterId

ThreadIds == {ThreadInfos[i].thread_id : i \in 1..Len(ThreadInfos)}

\* The caches of a stopped session: hit is the thread of the last breakpoint
\* hit, if any; after a hit the forced PC is armed until a read consumes it.
RegCaches ==
    { [StopCache EXCEPT !.is_stopped = TRUE, !.cur_thread_id = cur,
                        !.last_bp_thread_id = hit,
                        !.notify_bp_guest_address = armed] :
        cur \in ThreadIds, hit \in ThreadIds \cup {NoThread},
        armed \in {NoAddress, StopBreakpoint.address} }

InitReg ==
    /\ cache \in {c \in RegCaches :
                    c.last_bp_thread_id = NoThread
                        => c.notify_bp_guest_address = NoAddress}
    /\ processor = [StopProcessor EXCEPT !.execution_state = Paused]
    /\ effects = <<>>
    /\ receive_buffer = <<>>
    /\ sent = <<>>
    /\ session = [pc |-> "loop", connected |-> TRUE, pkts |-> <<>>, received |-> 0,
                  stop_thread_ |-> FALSE]
    /\ callback = [pc |-> "idle", ev |-> "none"]
    /\ mtx_ = "free"
    /\ hist = <<>>
    /\ codec = [run |-> "none"]

\* One request, for the record: its kind, the id it names, the reply, and the
\* cache before it.
RegRequest(kind, id, reply) == [kind |-> kind, id |-> id, reply |-> reply, before |-> cache]

RegDispatch(kind, id, body) ==
    LET parsed == ParsePacket(ClientPacket(body))
        r == HandleGDBCommand(World, parsed.out_cmd)
    IN  /\ parsed.ok
        /\ cache' = r.w.cache
        /\ processor' = r.w.processor
        /\ effects' = r.w.effects
        /\ hist' = <<RegRequest(kind, id, r.reply)>>
        /\ UNCHANGED <<receive_buffer, sent, session, callback, mtx_, codec>>

\* p with the id in hex, as a client writes it.
RegRead == \E rid \in RegisterIds : RegDispatch("p", rid, <<112>> \o HexText(rid))

\* p with no hex digit after it: std::from_chars stores nothing and hex_to
\* returns its uninitialised result, any 32-bit value.
UninitialisedIds == {0, kPcRegister, kRegisterCount - 1, kRegisterCount, 2147483647}

RegReadNoId ==
    \E rid \in UninitialisedIds :
        LET r == ReadRegisterId(World, rid)
        IN  /\ ParsePacket(ClientPacket(<<112>>)).ok
            /\ cache' = r.w.cache
            /\ processor' = r.w.processor
            /\ effects' = r.w.effects
            /\ hist' = <<RegRequest("p without id", rid, r.reply)>>
            /\ UNCHANGED <<receive_buffer, sent, session, callback, mtx_, codec>>

RegReadAll == RegDispatch("g", NoThread, <<103>>)

\* Hg and Hc with a thread id in hex, -1 (all threads) and 0 (any thread)
\* among them.
SelectIds == {-1, 0} \cup ThreadIds \cup {ThreadInfos[1].thread_id + 1}

ThreadText(id) == IF id < 0 THEN <<45>> \o HexText(0 - id) ELSE HexText(id)

RegSelect ==
    \E op \in {103, 99}, id \in SelectIds :
        RegDispatch("H", id, <<72, op>> \o ThreadText(id))

NextReg ==
    \/ RegRead
    \/ RegReadNoId
    \/ RegReadAll
    \/ RegSelect

SpecReg == InitReg /\ [][NextReg]_vars

(***************************************************************************)
(* Claims on the register reads (SpecReg).                                 *)
(***************************************************************************)
\* The width of a register's text and where it starts in the reply of g.
RegisterWidth(rid) == IF rid \in 32..63 THEN 16 ELSE 8

RegisterOffset(rid) ==
    IF rid <= 32 THEN 8 * rid
    ELSE IF rid <= 64 THEN 256 + 16 * (rid - 32)
    ELSE 768 + 8 * (rid - 64)

\* C14: with the current thread in the snapshot, the reply of g is 824
\* characters, and for each id of 0..70, in increasing order, the characters
\* at the id's place are what ReadRegister returns for it (8 for 0..31, 16 for
\* 32..63, 8 for 64..70).
C14_ReadRegistersReply ==
    (hist # <<>> /\ hist[1].kind = "g") =>
        LET before == hist[1].before
            thread == cur_thread_info(before)
        IN  /\ thread # <<>>
            /\ Len(hist[1].reply) = 824
            /\ \A rid \in 0..(kRegisterCount - 1) :
                   SubSeq(hist[1].reply, RegisterOffset(rid) + 1,
                          RegisterOffset(rid) + RegisterWidth(rid))
                       = ReadRegister(before, thread, rid).result

\* A g was answered for thread 9 while the forced PC was armed.
C14_Witness ==
    /\ hist # <<>> /\ hist[1].kind = "g"
    /\ hist[1].before.cur_thread_id = 9
    /\ hist[1].before.notify_bp_guest_address = StopBreakpoint.address
    /\ Len(hist[1].reply) = 824
    /\ cache.notify_bp_guest_address = NoAddress

\* C15: the reply of p is E01 exactly when the id it names is above 70; for an
\* id of 0..70 it is the register's text, of 8 characters for 0..31 and
\* 64..70 and of 16 for 32..63.
C15_ReadRegisterReply ==
    (hist # <<>> /\ hist[1].kind = "p") =>
        LET before == hist[1].before
            rid == hist[1].id
        IN  /\ (hist[1].reply = kGdbReplyError) <=> (rid > 70)
            /\ rid <= 70 =>
                 /\ Len(hist[1].reply) = RegisterWidth(rid)
                 /\ hist[1].reply = ReadRegister(before, cur_thread_info(before), rid).result

\* p47 (register 71) was answered E01.
C15_Witness ==
    /\ hist # <<>> /\ hist[1].kind = "p"
    /\ hist[1].id = kRegisterCount
    /\ hist[1].reply = kGdbReplyError

(***************************************************************************)
(* Claims on thread selection (SpecReg).                                   *)
(***************************************************************************)
\* C16: after an H command cur_thread_id is the id it names if a thread of
\* the snapshot has that id, and the id of the snapshot's first thread if
\* none has; the reply is OK either way, and every other field of the cache
\* is as it was.
C16_SetCurrentThread ==
    (hist # <<>> /\ hist[1].kind = "H") =>
        LET before == hist[1].before
            present == \E i \in 1..Len(before.thread_debug_infos) :
                           before.thread_debug_infos[i].thread_id = hist[1].id
        IN  /\ cache.cur_thread_id
                 = IF present THEN hist[1].id ELSE before.thread_debug_infos[1].thread_id
            /\ hist[1].reply = kGdbReplyOK
            /\ [cache EXCEPT !.cur_thread_id = before.cur_thread_id] = before

\* An H naming thread 8, which the snapshot does not hold, found thread 9
\* current and left thread 7, the first of the snapshot, current.
C16_Witness ==
    /\ hist # <<>> /\ hist[1].kind = "H"
    /\ hist[1].id = 8
    /\ hist[1].before.cur_thread_id = 9
    /\ cache.cur_thread_id = 7
    /\ hist[1].reply = kGdbReplyOK

(***************************************************************************)
(* Claims on the s command (SpecStop).                                     *)
(***************************************************************************)
IsStep(e) == e.ok /\ e.command.cmd = <<115>>

\* The threads StepGuestInstruction was called with while a packet was
\* handled.
StepCalls(e) ==
    {e.effects[i].thread_id :
        i \in {j \in 1..Len(e.effects) : e.effects[j].op = "StepGuestInstruction"}}

\* The thread of the last breakpoint hit whose OnBreakpointHit had written
\* last_bp_thread_id before the n-th packet was handled, or -1.  (A step is
\* only started on that thread, so an OnStepCompleted since reports the same
\* thread.)
LastReportedBefore(n) ==
    LET reported == {i \in 1..Len(hist) : hist[i].armed_at # -1 /\ hist[i].armed_at < n}
    IN  IF reported = {} THEN NoThread
        ELSE hist[CHOOSE i \in reported : \A j \in reported : j <= i].thread_id

\* C17: an s command calls StepGuestInstruction once, on the thread last
\* reported by OnBreakpointHit or OnStepCompleted, if a thread has been
\* reported, and does not call it if none has; what is written for the packet
\* is the acknowledgement and the reply OK, never a stop reply.
C17_StepCommand ==
    \A n \in 1..Len(session.pkts) :
        IsStep(session.pkts[n]) =>
            /\ session.pkts[n].reply = kGdbReplyOK
            /\ Len(session.pkts[n].effects)
                 = IF LastReportedBefore(n) = NoThread THEN 0 ELSE 1
            /\ StepCalls(session.pkts[n])
                 = IF LastReportedBefore(n) = NoThread THEN {} ELSE {LastReportedBefore(n)}
            /\ session.connected =>
                 WritesFor(n) = <<Write("ack", <<Ack>>, n),
                                  Write("reply", SendPacket(kGdbReplyOK), n)>>

\* An s stepped thread 9, the step has completed and been reported, and the
\* stop reply naming thread 9 was written by the flush after the reply OK.
C17_Witness ==
    /\ processor.execution_state = Paused /\ processor.pending = <<>>
    /\ callback.pc = "idle" /\ ~cache.notify_stopped
    /\ \E n \in 1..Len(session.pkts) :
         /\ IsStep(session.pkts[n])
         /\ StepCalls(session.pkts[n]) = {9}
         /\ \E k \in 1..Len(sent) :
              /\ sent[k].kind = "reply" /\ sent[k].pkt = n
              /\ sent[Len(sent)].kind = "stop" /\ k < Len(sent)
              /\ sent[Len(sent)].bytes
                   = SendPacket(GetThreadStateReply(cache, 9, kSignalSigtrap))

(***************************************************************************)
(* Claims on the interrupt byte (SpecRecv).                                *)
(***************************************************************************)
\* The interrupt command ProcessIncomingData made up itself (lines 387-390)
\* during the last Receive that returned data: its packet is the lone byte
\* \03, which no packet cut at a '#' can be.
InterruptEmitted ==
    \E n \in (hist[1].pkts_at + 1)..Len(session.pkts) :
        /\ session.pkts[n].packet = <<Interrupt>>
        /\ session.pkts[n].ok
        /\ session.pkts[n].command.cmd = <<Interrupt>>
        /\ session.pkts[n].reply = kGdbReplyOK
        /\ \E i \in 1..Len(session.pkts[n].effects) :
               session.pkts[n].effects[i].op = "Pause"

\* C18: the receiver makes up the interrupt command, calls Pause and replies
\* OK, exactly when the receive buffer holds the byte \03 and nothing else;
\* the buffer is empty afterwards.
C18_InterruptOnlyByte ==
    hist # <<>> =>
        /\ InterruptEmitted <=> hist[1].buffer = <<Interrupt>>
        /\ InterruptEmitted => receive_buffer = <<>>

(***************************************************************************)
(* Claims on the notification block (SpecStop).                            *)
(***************************************************************************)
\* "T05" "40:" pc ";" "43:" lr ";thread:" id ";" with pc and lr as eight hex
\* digits and the id in hex.
StopReplyText(pc, lr, thread_id) ==
    <<84, 48, 53, 52, 48, 58>> \o u32_to_padded_hex(pc)
        \o <<59, 52, 51, 58>> \o u32_to_padded_hex(lr)
        \o <<59, 116, 104, 114, 101, 97, 100, 58>> \o HexText(thread_id) \o <<59>>

\* A run of the notification block that found notify_stopped set.
FlushOfNotification ==
    /\ session.pc = "flushing" /\ session'.pc = "loop"
    /\ cache.notify_stopped

\* C19: a run of the notification block that finds notify_stopped set makes
\* notify_bp_thread_id, if it is not -1, the current thread; writes one stop
\* reply, T05 with the PC (the breakpoint address while it is armed), the LR
\* and the id of that thread if the snapshot holds it, S05 if
\* notify_bp_thread_id is -1; and leaves notify_stopped false,
\* notify_bp_thread_id -1 and the rest of the cache as it was.
C19_FlushSendsStopReply ==
    [][FlushOfNotification =>
         LET tid    == cache.notify_bp_thread_id
             thread == thread_info(cache, tid)
             pc     == IF cache.notify_bp_guest_address # NoAddress
                       THEN cache.notify_bp_guest_address
                       ELSE FirstGuestPc(thread[1].frames)
         IN  /\ cache'.cur_thread_id = IF tid # NoThread THEN tid ELSE cache.cur_thread_id
             /\ Len(sent') = Len(sent) + 1
             /\ SubSeq(sent', 1, Len(sent)) = sent
             /\ sent'[Len(sent')].bytes
                  = SendPacket(IF tid # NoThread /\ thread # <<>>
                               THEN StopReplyText(pc, thread[1].lr, tid)
                               ELSE <<83, 48, 53>>)
             /\ ~cache'.notify_stopped
             /\ cache'.notify_bp_thread_id = NoThread
             /\ cache' = [cache EXCEPT !.cur_thread_id = cache'.cur_thread_id,
                                       !.notify_stopped = FALSE,
                                       !.notify_bp_thread_id = NoThread]]_vars

\* The notification block has just reported a breakpoint hit on thread 9,
\* which was not the current thread before: T05 with the breakpoint address.
C19_Witness ==
    /\ session.pc = "loop"
    /\ sent # <<>> /\ sent[Len(sent)].kind = "stop"
    /\ sent[Len(sent)].bytes
         = SendPacket(StopReplyText(StopBreakpoint.address, ThreadInfos[2].lr, 9))
    /\ cache.cur_thread_id = 9
    /\ ~cache.notify_stopped /\ cache.notify_bp_thread_id = NoThread
    /\ cache.notify_bp_guest_address = StopBreakpoint.address

(***************************************************************************)
(* SpecLoop: one session and the owner of the stub, which may destroy the  *)
(* stub at any moment: the destructor sets stop_thread_.  The client sends *)
(* the interrupt byte and c.  The session thread and the Processor's       *)
(* thread are scheduled fairly: a step of theirs that stays possible is    *)
(* taken.                                                                   *)
(***************************************************************************)
MaxLoopRecv == 2   \* Receive calls that return data, per connection

LoopChunks == { <<Interrupt>>, ClientPacket(<<99>>) }

LoopReceive == ReceiveFrom(LoopChunks, MaxLoopRecv)

\* ~GDBStub, line 260.
StopThread ==
    /\ ~session.stop_thread_
    /\ session' = [session EXCEPT !.stop_thread_ = TRUE]
    /\ UNCHANGED <<cache, processor, receive_buffer, sent, callback, mtx_, effects, hist, codec>>

NextLoop ==
    \/ Connect
    \/ SessionLock
    \/ ConnectUpdateCache
    \/ LoopReceive
    \/ ReceiveNothing
    \/ SessionFlush
    \/ Disconnect
    \/ LoopExit
    \/ StopThread
    \/ CallbackBegin
    \/ CallbackLock
    \/ CallbackUpdateCache

SpecLoop ==
    /\ InitCommon
    /\ [][NextLoop]_vars
    /\ WF_vars(SessionLock) /\ WF_vars(ConnectUpdateCache)
    /\ WF_vars(SessionFlush) /\ WF_vars(LoopExit)
    /\ WF_vars(CallbackBegin) /\ WF_vars(CallbackLock) /\ WF_vars(CallbackUpdateCache)

(***************************************************************************)
(* Claims on the stop flag (SpecLoop).                                     *)
(***************************************************************************)
\* C20: once stop_thread_ is set, the loop of a running Listen takes no
\* further data from the client and extracts no further packet, its next
\* test of the loop condition ends it, and Listen returns.
C20_StopFlagEndsLoop ==
    /\ [][session.stop_thread_ =>
            /\ session'.received = session.received
            /\ session'.pkts = session.pkts
            /\ session.pc = "loop" => session'.pc \in {"loop", "ended"}]_vars
    /\ (session.stop_thread_ /\ session.pc # "closed") ~> (session.pc = "ended")

\* Listen has returned because of the flag: the client is still connected,
\* and had been served before.
C20_Witness ==
    /\ session.stop_thread_
    /\ session.pc = "ended"
    /\ session.connected
    /\ session.received > 0

(***************************************************************************)
(* Claims on the mutex (SpecStop).                                         *)
(***************************************************************************)
\* The one-shot fields of the cache.
OneShot(c) == <<c.notify_stopped, c.notify_bp_thread_id, c.notify_bp_guest_address>>

\* C21: every step that writes or clears a one-shot field is taken by a
\* thread that holds mtx_: a step of the Processor's callback with mtx_ held
\* by the callback, a step of the session thread (the notification block, a
\* read of register 64) with mtx_ held by the session thread.
C21_OneShotFieldsUnderMutex ==
    [][OneShot(cache') # OneShot(cache) =>
           IF callback' # callback THEN mtx_ = "callback" ELSE mtx_ = "session"]_vars

(***************************************************************************)
(* Claims on the staleness of the cache (SpecStop).                        *)
(***************************************************************************)
\* The commands whose handlers read cache_.thread_debug_infos: p (line 540,
\* through ReadRegister), g (line 551), qC (line 838), H (lines 845-854),
\* qfThreadInfo (line 908) and qXfer with the sub-command "threads" (line
\* 890, through BuildThreadList).
ReadsThreadFields(command) ==
    \/ command.cmd \in { <<112>>, <<103>>, <<113, 67>>, <<72>>,
                         <<113, 102, 84, 104, 114, 101, 97, 100, 73, 110, 102, 111>> }
    \/ /\ command.cmd = <<113, 88, 102, 101, 114>>
       /\ XferSubCommand(command.data) = <<116, 104, 114, 101, 97, 100, 115>>

\* The packets the step extracted and dispatched.
Dispatched ==
    { session'.pkts[i].command :
        i \in { j \in (Len(session.pkts) + 1)..Len(session'.pkts) : session'.pkts[j].ok } }

\* C22: a step of the session thread taken while is_stopped is false
\* dispatches no command whose handler reads the cached thread fields.
C22_NoThreadReadWhileRunning ==
    [][\A command \in Dispatched : ReadsThreadFields(command) => cache.is_stopped]_vars

\* A step that is UpdateCache run by a callback (lines 521-535).
IsCallbackRefresh == callback.pc = "updating" /\ callback'.pc = "idle"

SnapshotIds(threads) == {threads[i].thread_id : i \in 1..Len(threads)}

\* C23: a refresh made while the Processor is paused keeps cur_thread_id when
\* it names a thread of the reloaded listing, and otherwise sets it to the
\* first thread of the listing.
C23_RefreshKeepsValidThread ==
    [][IsCallbackRefresh /\ processor.execution_state = Paused
          => cache'.cur_thread_id =
                IF cache.cur_thread_id \in SnapshotIds(cache'.thread_debug_infos)
                THEN cache.cur_thread_id
                ELSE cache'.thread_debug_infos[1].thread_id]_vars

\* The fields a refresh of a running guest leaves stale.
StaleFields(c) ==
    <<c.thread_debug_infos, c.modules, c.cur_thread_id, c.last_bp_thread_id,
      c.notify_bp_thread_id, c.notify_bp_guest_address>>

\* C24: a refresh made while the Processor is Running leaves
\* thread_debug_infos, modules, cur_thread_id, last_bp_thread_id,
\* notify_bp_thread_id and notify_bp_guest_address as they were.
C24_RunningRefreshKeepsStaleFields ==
    [][IsCallbackRefresh /\ processor.execution_state = Running
          => StaleFields(cache') = StaleFields(cache)]_vars

\* The guest was stopped by a hit on the second thread, which the flush made
\* current; the client resumed it and OnExecutionContinued has refreshed the
\* cache: the current thread is still the second one.
C24_Witness ==
    /\ ~cache.is_stopped
    /\ processor.execution_state = Running
    /\ callback.pc = "idle"
    /\ processor.pending = <<>>
    /\ cache.cur_thread_id # cache.thread_debug_infos[1].thread_id
    /\ cache.last_bp_thread_id = cache.cur_thread_id

(***************************************************************************)
(* Claims on the mutex and the Processor (SpecLoop).                       *)
(***************************************************************************)
\* The session thread is inside a section that holds mtx_: UpdateCache's
\* body (lines 521-535) or the notification block (lines 304-310).
SessionHoldsMutex == session.pc \in {"updating", "flushing"}

SessionWaits == session.pc \in {"update", "flush"}

CallbackWaits == callback.pc = "update"

\* C25: while the session thread holds mtx_ it calls no Processor operation
\* and no cache refresh: it holds mtx_ only inside UpdateCache itself and in
\* the notification block, and the block leaves the Processor alone and
\* reloads nothing.  So the holder of mtx_ never waits and always releases
\* it, and when both threads wait for mtx_ it is free: the session thread
\* and a callback never wait for each other.
C25_NoProcessorCallUnderMutex ==
    /\ [](mtx_ = "session" <=> SessionHoldsMutex)
    /\ [](mtx_ = "callback" <=> callback.pc = "updating")
    /\ [](session.pc = "flushing" =>
            LET w == FlushNotification(SessionIO).w
            IN  /\ w.processor = processor
                /\ w.effects = <<>>
                /\ w.cache.is_stopped = cache.is_stopped
                /\ w.cache.thread_debug_infos = cache.thread_debug_infos
                /\ w.cache.modules = cache.modules)
    /\ [][mtx_ = "session" /\ session'.pc # session.pc
             => processor' = processor /\ effects' \in {effects, <<>>}]_vars
    /\ [](SessionWaits /\ CallbackWaits => mtx_ = "free")
    /\ (mtx_ = "session") ~> (mtx_ # "session")
    /\ (mtx_ = "callback") ~> (mtx_ # "callback")

\* The session thread is in the notification block with a stop to report,
\* and a callback that has made its writes waits for mtx_.
C25_Witness ==
    /\ mtx_ = "session"
    /\ session.pc = "flushing"
    /\ cache.notify_stopped
    /\ CallbackWaits

(***************************************************************************)
(* SpecNotify: the notification path, with the notification block of       *)
(* Listen's loop in two steps.  The callbacks write                       *)
(* notify_bp_thread_id without mtx_ (lines 775 and 788), so a write can    *)
(* land between the block's send (lines 305-308) and its clear (lines      *)
(* 309-310).  The guest runs with a breakpoint at 0x100, as at the start   *)
(* of SpecStop; the client sends at most one s.  hist holds one Hit record *)
(* per breakpoint hit and per completed step.                              *)
(***************************************************************************)
MaxNotifyRecv == 1   \* Receive calls that return data, from the start of SpecNotify

NotifyChunks == { ClientPacket(<<115>>) }

NotifyReceive == ReceiveFrom(NotifyChunks, MaxNotifyRecv)

\* Lines 305-308: the current thread follows the notification and the stop
\* reply is sent.
FlushSend(io) ==
    LET c  == io.w.cache
        c1 == IF c.notify_bp_thread_id # NoThread
              THEN [c EXCEPT !.cur_thread_id = c.notify_bp_thread_id]
              ELSE c
        reply == GetThreadStateReply(c1, c1.notify_bp_thread_id, kSignalSigtrap)
    IN  [io EXCEPT !.w.cache = c1,
                   !.out = Append(@, Write("stop", SendPacket(reply), 0))]

\* Lines 309-310.
FlushClear(c) == [c EXCEPT !.notify_bp_thread_id = NoThread, !.notify_stopped = FALSE]

\* Lines 304-308, under mtx_: the test of notify_stopped, and the send.
NotifySend ==
    /\ session.pc = "flushing"
    /\ LET io == IF cache.notify_stopped THEN FlushSend(SessionIO) ELSE SessionIO
       IN  /\ cache' = io.w.cache
           /\ sent' = io.out
           /\ hist' = IF io.out # sent THEN HitsCountStop(hist) ELSE hist
    /\ mtx_' = IF cache.notify_stopped THEN mtx_ ELSE "free"
    /\ session' = [session EXCEPT !.pc = IF cache.notify_stopped THEN "clearing" ELSE "loop"]
    /\ UNCHANGED <<processor, receive_buffer, callback, effects, codec>>

\* Lines 309-311: the one-shot fields are cleared and mtx_ is released.
NotifyClear ==
    /\ session.pc = "clearing"
    /\ cache' = FlushClear(cache)
    /\ mtx_' = "free"
    /\ session' = [session EXCEPT !.pc = "loop"]
    /\ UNCHANGED <<processor, receive_buffer, sent, callback, effects, hist, codec>>

\* The stepped thread has run its instruction, as in StepCompleted; the
\* step is recorded.
NotifyStepCompleted ==
    /\ processor.execution_state = Stepping
    /\ processor' = [processor EXCEPT
                       !.execution_state = Paused,
                       !.stepping = NoThread,
                       !.pending = Append(@, Event("OnStepCompleted", NoAddress,
                                                   processor.stepping))]
    /\ hist' = Append(HitsOver(hist), Hit(NoAddress, processor.stepping))
    /\ UNCHANGED <<cache, receive_buffer, sent, session, callback, mtx_, effects, codec>>

NextNotify ==
    \/ NotifyReceive
    \/ ReceiveNothing
    \/ SessionLock
    \/ NotifySend
    \/ NotifyClear
    \/ BreakpointHit
    \/ NotifyStepCompleted
    \/ CallbackBegin
    \/ CallbackLock
    \/ CallbackUpdateCache

\* Fair scheduling: each thread keeps running, and a thread that waits for
\* mtx_ gets it when it is free again and again.  NotifySend is enabled
\* exactly while the session thread is at line 304 and is the only step that
\* takes it from there, so its weak fairness is that the thread does not
\* stay at line 304 for ever.
SpecNotify ==
    /\ InitStop
    /\ [][NextNotify]_vars
    /\ WF_vars(ReceiveNothing) /\ SF_vars(SessionLock)
    /\ []<>(session.pc # "flushing") /\ WF_vars(NotifyClear)
    /\ WF_vars(CallbackBegin) /\ SF_vars(CallbackLock) /\ WF_vars(CallbackUpdateCache)

(***************************************************************************)
(* Claims on the notification path (SpecNotify).                           *)
(***************************************************************************)
\* The packet is a T stop reply that names the thread: its body ends with
\* ";thread:" tid ";".
NamesThread(bytes, thread_id) ==
    LET tail == <<59, 116, 104, 114, 101, 97, 100, 58>> \o HexText(thread_id) \o <<59>>
    IN  /\ Len(bytes) >= Len(tail) + 5
        /\ bytes[2] = 84
        /\ SubSeq(bytes, Len(bytes) - 2 - Len(tail), Len(bytes) - 3) = tail

StopWrites == SelectSeq(sent, LAMBDA wr : wr.kind = "stop")

\* One of the stop replies sent since the i-th recorded stop names its thread.
StopNamed(i) ==
    \E k \in (Len(StopWrites) - hist[i].stops + 1)..Len(StopWrites) :
        NamesThread(StopWrites[k].bytes, hist[i].thread_id)

StopPending(i) == Len(hist) >= i /\ ~hist[i].over

\* C26: after a breakpoint hit or a completed step, with the client connected
\* and the Processor left paused, the loop eventually has sent a stop reply
\* that names the stopping thread and notify_stopped is false again.
C26_NotificationNotLost ==
    \A i \in 1..2 :
        StopPending(i) ~> (StopPending(i) => StopNamed(i) /\ ~cache.notify_stopped)

\* The i-th recorded stop is a completed step, made when no notification was
\* pending and no callback outstanding, and the guest has been left paused
\* since.
StepPending(i) ==
    /\ StopPending(i)
    /\ hist[i].address = NoAddress
    /\ hist[i].clean

\* C27: the stop reply sent for a completed step carries the frame-derived
\* guest PC of the stepped thread, also when the forced PC of an earlier
\* breakpoint hit was not consumed by a read of the PC register.
C27_StepReplyHasFramePc ==
    \A i \in 1..Len(hist) :
        StepPending(i) =>
            \A k \in (Len(StopWrites) - hist[i].stops + 1)..Len(StopWrites) :
                NamesThread(StopWrites[k].bytes, hist[i].thread_id) =>
                    LET thread == thread_info(cache, hist[i].thread_id)[1]
                    IN  StopWrites[k].bytes =
                            SendPacket(StopReplyText(FirstGuestPc(thread.frames),
                                                     thread.lr, hist[i].thread_id))

(***************************************************************************)
(* SpecCache: the current thread across refreshes, H commands and          *)
(* notification flushes.  The guest runs with a breakpoint at 0x100, as at *)
(* the start of SpecStop; the client pauses and resumes it, selects        *)
(* threads (one of them unknown) and asks for the current one.             *)
(***************************************************************************)
MaxCacheRecv == 3   \* Receive calls that return data, from the start of SpecCache

CacheChunks ==
    { <<Interrupt>>,
      ClientPacket(<<99>>),
      ClientPacket(<<72, 103>> \o ThreadText(ThreadInfos[2].thread_id)),
      ClientPacket(<<72, 103>> \o ThreadText(ThreadInfos[1].thread_id + 1)),
      ClientPacket(<<113, 67>>) }

CacheReceive == ReceiveFrom(CacheChunks, MaxCacheRecv)

NextCache ==
    \/ CacheReceive
    \/ ReceiveNothing
    \/ SessionLock
    \/ SessionFlush
    \/ BreakpointHit
    \/ CallbackBegin
    \/ CallbackLock
    \/ CallbackUpdateCache

SpecCache == InitStop /\ [][NextCache]_vars

(***************************************************************************)
(* Claims on the current thread (SpecCache).                               *)
(***************************************************************************)
\* C28: whenever the cache is stopped and its snapshot is not empty,
\* cur_thread_id is the id of a thread of the snapshot, whatever refreshes,
\* H commands and notification flushes came before; and no dispatched
\* command has looked the current thread up in vain.
C28_CurrentThreadInSnapshot ==
    /\ cache.is_stopped /\ cache.thread_debug_infos # <<>>
          => cache.cur_thread_id \in SnapshotIds(cache.thread_debug_infos)
    /\ \A i \in 1..Len(session.pkts) :
          /\ "null dereference" \notin EffectOps(session.pkts[i].effects)
          /\ session.pkts[i].ok /\ session.pkts[i].command.cmd = <<113, 67>>
                => session.pkts[i].reply = <<81, 67>> \o to_string(session.pkts[i].cur_thread_id)

\* The guest was paused, the client selected the second thread with H, and
\* qC has just answered with it; no breakpoint was hit, so it was H that set
\* the current thread.
C28_Witness ==
    /\ cache.is_stopped
    /\ cache.last_bp_thread_id = NoThread
    /\ cache.cur_thread_id = ThreadInfos[2].thread_id
    /\ session.pkts # <<>>
    /\ session.pkts[Len(session.pkts)].command.cmd = <<113, 67>>
    /\ session.pkts[Len(session.pkts)].reply =
           <<81, 67>> \o to_string(ThreadInfos[2].thread_id)

(***************************************************************************)
(* Claims on the extraction loop (SpecRecv).                               *)
(***************************************************************************)
\* The packets the last ProcessIncomingData extracted, one per pass of the
\* loop that did not break.
Extracted ==
    [k \in 1..(Len(session.pkts) - hist[1].pkts_at) |->
        session.pkts[hist[1].pkts_at + k].packet]

RECURSIVE Concat(_)
Concat(seqs) == IF seqs = <<>> THEN <<>> ELSE Head(seqs) \o Concat(Tail(seqs))

\* The loop condition and the test of line 384 on a buffer, isInterrupt
\* being false: a '#' with two bytes after it.
HasFullPacket(buf) == Find(buf, PacketEnd) + 2 < Len(buf)

\* C29: the extraction loop ends.  A lone interrupt byte takes one pass,
\* which empties the buffer; otherwise every pass cuts its packet, at
\* least three bytes, off the front of the buffer, so the passes are at
\* most a third of the buffer's length; and the loop is left with no '#' in
\* the buffer or fewer than two bytes after the first one.
C29_ExtractionLoopEnds ==
    hist # <<>> =>
        /\ ~HasFullPacket(receive_buffer)
        /\ IF hist[1].chunk = <<Interrupt>>
           THEN Extracted = <<(<<Interrupt>>)>> /\ receive_buffer = <<>>
           ELSE /\ \A k \in 1..Len(Extracted) : Len(Extracted[k]) >= 3
                /\ Concat(Extracted) \o receive_buffer = hist[1].buffer
                /\ 3 * Len(Extracted) <= Len(hist[1].buffer)

\* A Receive completed a packet whose start was waiting in the buffer: the
\* loop cut it off in one pass, and left the loop on its next pass with a
\* '#' in the buffer that fewer than two bytes follow.
C29_Witness ==
    /\ hist # <<>>
    /\ Len(hist[1].chunk) < Len(hist[1].buffer)
    /\ Len(Extracted) = 1
    /\ Len(Extracted[1]) > 3
    /\ Find(receive_buffer, PacketEnd) # Len(receive_buffer)
====
